---- MODULE Spec2Model ----
(***************************************************************************)
(* Model of the "Who Is Lying" game server: the in-memory room registry    *)
(* (server/roomManager.js), the per-room countdown timers (timerManager)   *)
(* and the socket handlers that wire them together (server.js).            *)
(*                                                                         *)
(* One action is one run-to-completion handler of the single-threaded      *)
(* server: a socket event, one firing of a timer's interval callback, or   *)
(* the delayed postGame callback.                                          *)
(***************************************************************************)
EXTENDS Integers, Sequences, FiniteSets, TLC

VARIABLES
    rooms,            \* roomManager.js `rooms`: room code -> room record
    nextId,           \* next player id generatePlayerId() hands out
    roomTimers,       \* timerManager `roomTimers`: room code -> live timer
    postGameTimeouts, \* pending setTimeout(..., 5000) callbacks of handleVotingComplete
    nextSock,         \* next connection id the transport hands out
    crashed,          \* an exception escaped a handler (uncaught: the process is gone)
    roundPlayers,     \* history: room code -> the players present when the round started
    wordSentTo        \* history: room code -> players sent this round's word so far

vars == <<rooms, nextId, roomTimers, postGameTimeouts, nextSock, crashed, roundPlayers, wordSentTo>>

(***************************************************************************)
(* Bounds of the exploration.                                              *)
(***************************************************************************)
MaxIds == 4        \* player ids ever handed out
MaxRooms == 1      \* room codes generateRoomCode can draw
MaxSockets == 4    \* connection ids
MaxRand == 2       \* outcomes explored per Math.random() draw of the imposter and of the word
MaxTopics == 1     \* outcomes explored per Math.random() draw of the topic
MaxShuffle == 1    \* outcomes explored per Math.random() draw of shuffleArray
MaxGames == 1      \* games a room plays before the exploration stops starting new ones
MaxTargets == 2    \* player ids a client names as its vote target (besides a missing target)
TickBatch == 30    \* consecutive interval callbacks of one timer taken as one step

(***************************************************************************)
(* Program constants.                                                      *)
(***************************************************************************)
MIN_PLAYERS == 4
NumTopics == 8
WordsPerTopic == 7
RoleRevealSeconds == 10
DescriptionSeconds == 60
VotingSeconds == 30
DefaultDescriptionTime == 10
DefaultVotingTime == 60

DescriptionTimeMin == 5
DescriptionTimeMax == 60
VotingTimeMin == 15
VotingTimeMax == 180

SETTINGS_LIMITS ==
    [descriptionTime |-> [min |-> DescriptionTimeMin, max |-> DescriptionTimeMax],
     votingTime |-> [min |-> VotingTimeMin, max |-> VotingTimeMax]]

PHASE_DURATIONS ==
    [roleReveal |-> RoleRevealSeconds, description |-> DescriptionSeconds, voting |-> VotingSeconds]

DEFAULT_SETTINGS ==
    [descriptionTime |-> DefaultDescriptionTime, votingTime |-> DefaultVotingTime]

Codes == 1..MaxRooms
Ids == 1..MaxIds
Sockets == 1..MaxSockets

NoResponse == "(No response)"
Disconnected == "(Disconnected)"

(***************************************************************************)
(* Generic helpers.                                                        *)
(***************************************************************************)
Min(S) == CHOOSE x \in S : \A y \in S : x <= y

\* JS object / Map helpers: a room is a record whose round-scoped fields come and go.
Has(r, f) == f \in DOMAIN r
Put(r, f, v) == (f :> v) @@ r
Del(r, F) == [f \in DOMAIN r \ F |-> r[f]]

\* Object.keys(map).length
Size(m) == Cardinality(DOMAIN m)

\* Ascending sequence of a set of integers: Map iteration order of room.players
\* (ids are handed out in insertion order).
RECURSIVE SortedSeq(_)
SortedSeq(S) == IF S = {} THEN << >> ELSE <<Min(S)>> \o SortedSeq(S \ {Min(S)})

Range(s) == {s[i] : i \in DOMAIN s}

\* Math.floor(Math.random() * n): the outcomes explored
RandomBelow(n, max) == 0..((IF n < max THEN n ELSE max) - 1)

(***************************************************************************)
(* Names: a spelling (base) with a capitalisation; toLowerCase() drops the *)
(* capitalisation.  A client joining as a new player types the name        *)
(* FreshName(id); rejoin attempts type an existing player's name in either *)
(* capitalisation.                                                         *)
(***************************************************************************)
ToLowerCase(name) == [name EXCEPT !.caps = FALSE]
FreshName(id) == [base |-> id, caps |-> (id % 2 = 0)]
OtherCase(name) == [name EXCEPT !.caps = ~name.caps]

\* roomCode.toUpperCase(): clients may type a code in lower case
ToUpperCase(rc) == rc.code
CodeInputs == {[code |-> c, lower |-> l] : c \in Codes, l \in BOOLEAN}

(***************************************************************************)
(* Room registry (roomManager.js).                                         *)
(***************************************************************************)
\* rooms.entries() in Map insertion order
RoomOrder(reg) ==
    LET ord == SortedSeq({reg[c].createdAt : c \in DOMAIN reg})
    IN  [i \in DOMAIN ord |-> CHOOSE c \in DOMAIN reg : reg[c].createdAt = ord[i]]

PlayerIds(room) == SortedSeq(DOMAIN room.players)

\* The nested loops of getPlayerBySocketId / removePlayerBySocketId: first match in
\* room order, then player order; code 0 when no player holds the socket
RECURSIVE FindBySocket(_, _, _, _)
FindBySocket(reg, order, i, s) ==
    IF i > Len(order) THEN [code |-> 0, id |-> 0]
    ELSE LET room == reg[order[i]]
             hit == {p \in DOMAIN room.players : room.players[p].socketId = s}
         IN  IF hit # {} THEN [code |-> order[i], id |-> Min(hit)]
             ELSE FindBySocket(reg, order, i + 1, s)

getPlayerBySocketId(reg, s) == FindBySocket(reg, RoomOrder(reg), 1, s)

BoundSockets ==
    UNION {{rooms[c].players[p].socketId : p \in DOMAIN rooms[c].players} : c \in DOMAIN rooms}

\* Connections an event can come from: those bound to a player, and one connection bound
\* to nobody (all such connections behave alike; it is the next fresh one)
FreshSockets == {s \in Sockets : s = nextSock}
EventSockets == BoundSockets \cup FreshSockets

\* createRoom(hostName, socketId) with the code generateRoomCode drew
createRoom(code, hostName, socketId) ==
    [code |-> code,
     hostId |-> nextId,
     phase |-> "lobby",
     players |-> (nextId :> [id |-> nextId, name |-> hostName, socketId |-> socketId]),
     createdAt |-> nextId,
     gameNumber |-> 0,
     settings |-> DEFAULT_SETTINGS]

\* joinRoom that lets a player in whatever the phase
joinRoomAnyPhase(room, playerName, socketId) ==
    IF \E p \in DOMAIN room.players :
           ToLowerCase(room.players[p].name) = ToLowerCase(playerName)
    THEN [room |-> room, error |-> "NAME_TAKEN", id |-> 0]
    ELSE [room |-> [room EXCEPT !.players =
                        (nextId :> [id |-> nextId, name |-> playerName, socketId |-> socketId]) @@ @],
          error |-> "", id |-> nextId]

\* joinRoom on an existing room
joinRoom(room, playerName, socketId) ==
    IF room.phase # "lobby" /\ room.phase # "postGame"
    THEN [room |-> room, error |-> "GAME_IN_PROGRESS", id |-> 0]
    ELSE IF \E p \in DOMAIN room.players :
                ToLowerCase(room.players[p].name) = ToLowerCase(playerName)
    THEN [room |-> room, error |-> "NAME_TAKEN", id |-> 0]
    ELSE [room |-> [room EXCEPT !.players =
                        (nextId :> [id |-> nextId, name |-> playerName, socketId |-> socketId]) @@ @],
          error |-> "", id |-> nextId]

\* attemptRejoin that compares the names as typed
attemptRejoinExactName(room, playerName, newSocketId) ==
    LET hit == {p \in DOMAIN room.players : room.players[p].name = playerName}
    IN  IF hit = {}
        THEN [room |-> room, success |-> FALSE, error |-> "PLAYER_NOT_FOUND", id |-> 0, oldSocketId |-> 0]
        ELSE LET p == Min(hit)
             IN  [room |-> [room EXCEPT !.players[p].socketId = newSocketId],
                  success |-> TRUE, error |-> "", id |-> p,
                  oldSocketId |-> room.players[p].socketId]

\* attemptRejoin on an existing room
attemptRejoin(room, playerName, newSocketId) ==
    LET hit == {p \in DOMAIN room.players :
                    ToLowerCase(room.players[p].name) = ToLowerCase(playerName)}
    IN  IF hit = {}
        THEN [room |-> room, success |-> FALSE, error |-> "PLAYER_NOT_FOUND", id |-> 0, oldSocketId |-> 0]
        ELSE LET p == Min(hit)
             IN  [room |-> [room EXCEPT !.players[p].socketId = newSocketId],
                  success |-> TRUE, error |-> "", id |-> p,
                  oldSocketId |-> room.players[p].socketId]

\* A removal that does not hand the host role on
removePlayerKeepsHost(reg, s) ==
    LET f == FindBySocket(reg, RoomOrder(reg), 1, s)
    IN  IF f.code = 0
        THEN [rooms |-> reg, found |-> FALSE, roomDeleted |-> FALSE, newHostId |-> 0]
        ELSE LET room == reg[f.code]
                 rest == [q \in DOMAIN room.players \ {f.id} |-> room.players[q]]
             IN  IF DOMAIN rest = {}
                 THEN [rooms |-> [c \in DOMAIN reg \ {f.code} |-> reg[c]],
                       found |-> TRUE, roomDeleted |-> TRUE, newHostId |-> 0]
                 ELSE [rooms |-> [reg EXCEPT ![f.code] = [room EXCEPT !.players = rest]],
                       found |-> TRUE, roomDeleted |-> FALSE, newHostId |-> 0]

\* A removal that leaves the room in the registry when its last player goes
removePlayerKeepsEmptyRoom(reg, s) ==
    LET f == FindBySocket(reg, RoomOrder(reg), 1, s)
    IN  IF f.code = 0
        THEN [rooms |-> reg, found |-> FALSE, roomDeleted |-> FALSE, newHostId |-> 0]
        ELSE LET room == reg[f.code]
                 rest == [q \in DOMAIN room.players \ {f.id} |-> room.players[q]]
             IN  IF room.hostId = f.id /\ DOMAIN rest # {}
                 THEN [rooms |-> [reg EXCEPT ![f.code] =
                                     [room EXCEPT !.players = rest, !.hostId = Min(DOMAIN rest)]],
                       found |-> TRUE, roomDeleted |-> FALSE, newHostId |-> Min(DOMAIN rest)]
                 ELSE [rooms |-> [reg EXCEPT ![f.code] = [room EXCEPT !.players = rest]],
                       found |-> TRUE, roomDeleted |-> FALSE, newHostId |-> 0]

\* removePlayerBySocketId(socketId): the registry after the removal, and what it reports
removePlayerBySocketId(reg, s) ==
    LET f == FindBySocket(reg, RoomOrder(reg), 1, s)
    IN  IF f.code = 0
        THEN [rooms |-> reg, found |-> FALSE, roomDeleted |-> FALSE, newHostId |-> 0]
        ELSE LET room == reg[f.code]
                 rest == [q \in DOMAIN room.players \ {f.id} |-> room.players[q]]
             IN  IF DOMAIN rest = {}
                 THEN [rooms |-> [c \in DOMAIN reg \ {f.code} |-> reg[c]],
                       found |-> TRUE, roomDeleted |-> TRUE, newHostId |-> 0]
                 ELSE IF room.hostId = f.id
                 THEN [rooms |-> [reg EXCEPT ![f.code] =
                                     [room EXCEPT !.players = rest, !.hostId = Min(DOMAIN rest)]],
                       found |-> TRUE, roomDeleted |-> FALSE, newHostId |-> Min(DOMAIN rest)]
                 ELSE [rooms |-> [reg EXCEPT ![f.code] = [room EXCEPT !.players = rest]],
                       found |-> TRUE, roomDeleted |-> FALSE, newHostId |-> 0]

\* serializeRoom: the public view of a room
\* A serialization that forgets to leave the imposter out
serializeRoomWithImposter(room) ==
    LET pub == [code |-> room.code, hostId |-> room.hostId, phase |-> room.phase,
                players |-> [p \in DOMAIN room.players |-> room.players[p].name],
                playerCount |-> Cardinality(DOMAIN room.players),
                gameNumber |-> room.gameNumber,
                settings |-> room.settings]
    IN  IF Has(room, "imposterId") THEN Put(pub, "imposterId", room.imposterId) ELSE pub

serializeRoom(room) ==
    LET pub == [code |-> room.code, hostId |-> room.hostId, phase |-> room.phase,
                players |-> [p \in DOMAIN room.players |-> room.players[p].name],
                playerCount |-> Cardinality(DOMAIN room.players),
                gameNumber |-> room.gameNumber,
                settings |-> room.settings]
    IN  IF Has(room, "topic") THEN Put(pub, "topic", room.topic) ELSE pub

(***************************************************************************)
(* Game operations (roomManager.js).  Each takes the room record found in  *)
(* the registry and yields the room as the call leaves it together with    *)
(* the returned result; `threw` marks a call that raised instead of        *)
(* returning (the room then holds whatever was assigned before the throw). *)
(***************************************************************************)
EmptyMap == << >>

Result(room, success, error) ==
    [room |-> room, success |-> success, error |-> error, threw |-> FALSE]

Threw(room) == [room |-> room, success |-> FALSE, error |-> "TypeError", threw |-> TRUE]

\* getRandomTopicAndWord: the draws explored
TopicWordDraws ==
    {[topic |-> t, word |-> <<t, w>>] : t \in RandomBelow(NumTopics, MaxTopics), w \in RandomBelow(WordsPerTopic, MaxRand)}

\* selectRandomImposter(players) for the draw k
selectRandomImposter(players, k) == SortedSeq(DOMAIN players)[k + 1]

Swap(arr, i, j) == [arr EXCEPT ![i] = arr[j], ![j] = arr[i]]

\* Fisher-Yates from position i (1-based) downwards: every outcome explored
RECURSIVE FisherYates(_, _)
FisherYates(arr, i) ==
    IF i < 2 THEN {arr}
    ELSE UNION {FisherYates(Swap(arr, i, j + 1), i - 1) : j \in RandomBelow(i, MaxShuffle)}

\* A shuffle that repeats the first element in every place
shuffleArrayRepeats(array) == {[i \in DOMAIN array |-> array[1]]}

shuffleArray(array) == FisherYates(array, Len(array))

\* speakingOrder[index] with a 0-based index; 0 stands for undefined
At(order, index) == IF index + 1 \in DOMAIN order THEN order[index + 1] ELSE 0

\* startGame that does not ask who is calling
startGameAnyCaller(room, requestingPlayerId, tw, k) ==
    IF room.phase # "lobby" THEN Result(room, FALSE, "GAME_ALREADY_STARTED")
    ELSE IF Cardinality(DOMAIN room.players) < MIN_PLAYERS
    THEN Result(room, FALSE, "NOT_ENOUGH_PLAYERS") @@
            [required |-> MIN_PLAYERS, current |-> Cardinality(DOMAIN room.players)]
    ELSE LET imposterId == selectRandomImposter(room.players, k)
         IN  Result(Put(Put(Put([room EXCEPT !.phase = "roleReveal"],
                                "topic", tw.topic), "word", tw.word), "imposterId", imposterId),
                    TRUE, "") @@
                [gameData |-> [topic |-> tw.topic, word |-> tw.word, imposterId |-> imposterId]]

startGame(room, requestingPlayerId, tw, k) ==
    IF room.hostId # requestingPlayerId THEN Result(room, FALSE, "NOT_HOST")
    ELSE IF room.phase # "lobby" THEN Result(room, FALSE, "GAME_ALREADY_STARTED")
    ELSE IF Cardinality(DOMAIN room.players) < MIN_PLAYERS
    THEN Result(room, FALSE, "NOT_ENOUGH_PLAYERS") @@
            [required |-> MIN_PLAYERS, current |-> Cardinality(DOMAIN room.players)]
    ELSE LET imposterId == selectRandomImposter(room.players, k)
         IN  Result(Put(Put(Put([room EXCEPT !.phase = "roleReveal"],
                                "topic", tw.topic), "word", tw.word), "imposterId", imposterId),
                    TRUE, "") @@
                [gameData |-> [topic |-> tw.topic, word |-> tw.word, imposterId |-> imposterId]]

\* transitionToDescriptionPhase without its phase precondition
transitionToDescriptionPhaseAnyPhase(room, order) ==
    Result(Put(Put(Put([room EXCEPT !.phase = "description"],
                       "descriptions", EmptyMap), "speakingOrder", order),
               "currentSpeakerIndex", 0),
           TRUE, "") @@ [speakingOrder |-> order]

transitionToDescriptionPhase(room, order) ==
    IF room.phase # "roleReveal" THEN Result(room, FALSE, "INVALID_PHASE")
    ELSE Result(Put(Put(Put([room EXCEPT !.phase = "description"],
                            "descriptions", EmptyMap), "speakingOrder", order),
                    "currentSpeakerIndex", 0),
                TRUE, "") @@ [speakingOrder |-> order]

\* String.prototype.trim on the texts a client sends
Clue == " clue"
Blank == "  "
Texts == {Clue, Blank}
Trim(text) == IF text = Blank THEN "" ELSE "clue"

\* submitDescription that does not look whose turn it is
submitDescriptionAnyTurn(room, playerId, description) ==
    IF room.phase # "description" THEN Result(room, FALSE, "INVALID_PHASE")
    ELSE IF playerId \notin DOMAIN room.players THEN Result(room, FALSE, "PLAYER_NOT_IN_ROOM")
    ELSE IF playerId \in DOMAIN room.descriptions THEN Result(room, FALSE, "ALREADY_SUBMITTED")
    ELSE LET finalDescription == IF Trim(description) = "" THEN NoResponse ELSE Trim(description)
             descs == (playerId :> finalDescription) @@ room.descriptions
         IN  Result([room EXCEPT !.descriptions = descs,
                                 !.currentSpeakerIndex = @ + 1],
                    TRUE, "") @@
                [allSubmitted |-> (Size(descs) = Cardinality(DOMAIN room.players)),
                 submittedBy |-> playerId,
                 description |-> finalDescription]

submitDescription(room, playerId, description) ==
    IF room.phase # "description" THEN Result(room, FALSE, "INVALID_PHASE")
    ELSE IF playerId \notin DOMAIN room.players THEN Result(room, FALSE, "PLAYER_NOT_IN_ROOM")
    ELSE IF playerId # At(room.speakingOrder, room.currentSpeakerIndex)
    THEN Result(room, FALSE, "NOT_YOUR_TURN")
    ELSE IF playerId \in DOMAIN room.descriptions THEN Result(room, FALSE, "ALREADY_SUBMITTED")
    ELSE LET finalDescription == IF Trim(description) = "" THEN NoResponse ELSE Trim(description)
             descs == (playerId :> finalDescription) @@ room.descriptions
         IN  Result([room EXCEPT !.descriptions = descs,
                                 !.currentSpeakerIndex = @ + 1],
                    TRUE, "") @@
                [allSubmitted |-> (Size(descs) = Cardinality(DOMAIN room.players)),
                 submittedBy |-> playerId,
                 description |-> finalDescription]

autoSubmitMissingDescriptions(room) ==
    IF room.phase # "description" THEN Result(room, FALSE, "INVALID_PHASE")
    ELSE LET missing == DOMAIN room.players \ DOMAIN room.descriptions
         IN  Result([room EXCEPT !.descriptions = [p \in missing |-> NoResponse] @@ @], TRUE, "") @@
                [autoSubmittedCount |-> Cardinality(missing)]

\* A skip loop that does not stop at the end of the speaking order
RECURSIVE SkipDepartedPastEnd(_, _)
SkipDepartedPastEnd(room, skipCount) ==
    IF skipCount < Len(room.speakingOrder)
       /\ At(room.speakingOrder, room.currentSpeakerIndex) \notin DOMAIN room.players
    THEN SkipDepartedPastEnd([room EXCEPT !.currentSpeakerIndex = @ + 1], skipCount + 1)
    ELSE room

\* The skip loop shared by getCurrentSpeaker and autoSubmitCurrentSpeaker: advance past
\* speakers who left, filling "(Disconnected)" for each, at most maxSkips times.
RECURSIVE SkipDeparted(_, _)
SkipDeparted(room, skipCount) ==
    IF room.currentSpeakerIndex < Len(room.speakingOrder)
       /\ skipCount < Len(room.speakingOrder)
       /\ At(room.speakingOrder, room.currentSpeakerIndex) \notin DOMAIN room.players
    THEN LET sid == At(room.speakingOrder, room.currentSpeakerIndex)
         IN  SkipDeparted([room EXCEPT
                              !.descriptions = IF sid \in DOMAIN @ THEN @ ELSE (sid :> Disconnected) @@ @,
                              !.currentSpeakerIndex = @ + 1],
                          skipCount + 1)
    ELSE room

\* A getCurrentSpeaker that gives up when the speaker at the index has left
getCurrentSpeakerNoSkip(room) ==
    IF room.phase # "description" THEN Result(room, FALSE, "INVALID_PHASE")
    ELSE LET sid == At(room.speakingOrder, room.currentSpeakerIndex)
         IN  IF room.currentSpeakerIndex >= Len(room.speakingOrder) \/ sid \notin DOMAIN room.players
             THEN Result(room, TRUE, "") @@ [allComplete |-> TRUE, currentSpeaker |-> 0]
             ELSE Result(room, TRUE, "") @@ [allComplete |-> FALSE, currentSpeaker |-> sid]

getCurrentSpeaker(room) ==
    IF room.phase # "description" THEN Result(room, FALSE, "INVALID_PHASE")
    ELSE LET r2 == SkipDeparted(room, 0)
             sid == At(r2.speakingOrder, r2.currentSpeakerIndex)
         IN  IF r2.currentSpeakerIndex >= Len(r2.speakingOrder) \/ sid \notin DOMAIN r2.players
             THEN Result(r2, TRUE, "") @@ [allComplete |-> TRUE, currentSpeaker |-> 0]
             ELSE Result(r2, TRUE, "") @@ [allComplete |-> FALSE, currentSpeaker |-> sid]

\* autoSubmitCurrentSpeaker: the turn-timeout advance.  When the speaker it moves on to has
\* left the room, reading that player's name raises a TypeError after the index moved.
autoSubmitCurrentSpeaker(room) ==
    IF room.phase # "description" THEN Result(room, FALSE, "INVALID_PHASE")
    ELSE LET currentSpeakerId == At(room.speakingOrder, room.currentSpeakerIndex)
         IN  IF currentSpeakerId = 0 THEN Result(room, FALSE, "NO_CURRENT_SPEAKER")
             ELSE IF currentSpeakerId \notin DOMAIN room.players
             THEN LET r2 == SkipDeparted([room EXCEPT !.currentSpeakerIndex = @ + 1], 0)
                      allSubmitted == r2.currentSpeakerIndex >= Len(r2.speakingOrder)
                      nextSpeakerId == At(r2.speakingOrder, r2.currentSpeakerIndex)
                  IN  Result(r2, TRUE, "") @@
                         [allSubmitted |-> allSubmitted,
                          nextSpeaker |-> IF ~allSubmitted /\ nextSpeakerId \in DOMAIN r2.players
                                          THEN nextSpeakerId ELSE 0,
                          skippedDisconnected |-> TRUE]
             ELSE LET r2 == [room EXCEPT
                               !.descriptions = IF currentSpeakerId \in DOMAIN @ THEN @
                                                ELSE (currentSpeakerId :> NoResponse) @@ @,
                               !.currentSpeakerIndex = @ + 1]
                      allSubmitted == r2.currentSpeakerIndex >= Len(r2.speakingOrder)
                      nextSpeakerId == At(r2.speakingOrder, r2.currentSpeakerIndex)
                  IN  IF ~allSubmitted /\ nextSpeakerId \notin DOMAIN r2.players THEN Threw(r2)
                      ELSE Result(r2, TRUE, "") @@
                              [allSubmitted |-> allSubmitted,
                               nextSpeaker |-> IF allSubmitted THEN 0 ELSE nextSpeakerId,
                               skippedDisconnected |-> FALSE]

\* getAttributedDescriptions: one entry per speaking-order slot
getAttributedDescriptions(room) ==
    [i \in DOMAIN room.speakingOrder |->
        LET pid == room.speakingOrder[i]
        IN  [playerId |-> pid,
             description |-> IF pid \in DOMAIN room.descriptions
                             THEN room.descriptions[pid] ELSE NoResponse]]

\* A disconnect handling that writes the placeholder over whatever the player said
handlePlayerDisconnectOverwrites(room, playerId) ==
    IF room.phase = "description"
    THEN LET r2 == [room EXCEPT !.descriptions = (playerId :> Disconnected) @@ @]
         IN  [room |-> r2, phase |-> room.phase,
              autoSubmitted |-> TRUE, wasCurrentSpeaker |-> FALSE,
              newSpeakerIndex |-> r2.currentSpeakerIndex,
              descriptionComplete |-> (Size(r2.descriptions) >= Cardinality(DOMAIN room.players)),
              votingComplete |-> FALSE]
    ELSE [room |-> room, phase |-> room.phase,
          autoSubmitted |-> FALSE, wasCurrentSpeaker |-> FALSE, newSpeakerIndex |-> 0,
          descriptionComplete |-> FALSE, votingComplete |-> FALSE]

\* handlePlayerDisconnectMidGame.  speakingOrder holds player ids (strings), so the
\* listed speaker's `.id` is undefined and never equals playerId.
SpeakerIdField(speaker) == 0

handlePlayerDisconnectMidGame(room, playerId) ==
    IF room.phase = "description"
    THEN LET fill == playerId \notin DOMAIN room.descriptions
             currentSpeaker == At(room.speakingOrder, room.currentSpeakerIndex)
             wasCurrent == fill /\ currentSpeaker # 0 /\ SpeakerIdField(currentSpeaker) = playerId
             r2 == [room EXCEPT
                       !.descriptions = IF fill THEN (playerId :> Disconnected) @@ @ ELSE @,
                       !.currentSpeakerIndex = IF wasCurrent THEN @ + 1 ELSE @]
         IN  [room |-> r2, phase |-> room.phase,
              autoSubmitted |-> fill, wasCurrentSpeaker |-> wasCurrent,
              newSpeakerIndex |-> r2.currentSpeakerIndex,
              descriptionComplete |-> (Size(r2.descriptions) >= Cardinality(DOMAIN room.players)),
              votingComplete |-> FALSE]
    ELSE IF room.phase = "voting"
    THEN LET remaining == Cardinality(DOMAIN room.players) - 1
         IN  [room |-> room, phase |-> room.phase,
              autoSubmitted |-> FALSE, wasCurrentSpeaker |-> FALSE, newSpeakerIndex |-> 0,
              descriptionComplete |-> FALSE,
              votingComplete |-> (remaining > 0 /\ Size(room.confirmedVotes) >= remaining)]
    ELSE [room |-> room, phase |-> room.phase,
          autoSubmitted |-> FALSE, wasCurrentSpeaker |-> FALSE, newSpeakerIndex |-> 0,
          descriptionComplete |-> FALSE, votingComplete |-> FALSE]

(***************************************************************************)
(* Voting and resolution (roomManager.js).                                 *)
(***************************************************************************)
\* transitionToVotingPhase; `cancelled` is the postGame timeout it clears, 0 when none
transitionToVotingPhase(room) ==
    IF room.phase # "description" THEN Result(room, FALSE, "INVALID_PHASE") @@ [cancelled |-> 0]
    ELSE LET stale == IF Has(room, "postGameTimeoutId") THEN room.postGameTimeoutId ELSE 0
             r1 == Put(Put(Put(Put([room EXCEPT !.phase = "voting"],
                                   "votes", EmptyMap), "pendingVotes", EmptyMap),
                           "confirmedVotes", EmptyMap), "chat", << >>)
             r2 == IF stale # 0 THEN [r1 EXCEPT !.postGameTimeoutId = 0] ELSE r1
         IN  Result(r2, TRUE, "") @@ [cancelled |-> stale]

selectVote(room, voterId, targetPlayerId) ==
    IF room.phase # "voting" THEN Result(room, FALSE, "INVALID_PHASE")
    ELSE IF voterId \notin DOMAIN room.players THEN Result(room, FALSE, "VOTER_NOT_IN_ROOM")
    ELSE IF targetPlayerId \notin DOMAIN room.players THEN Result(room, FALSE, "TARGET_NOT_IN_ROOM")
    ELSE IF voterId = targetPlayerId THEN Result(room, FALSE, "CANNOT_VOTE_SELF")
    ELSE IF voterId \in DOMAIN room.confirmedVotes THEN Result(room, FALSE, "ALREADY_CONFIRMED")
    ELSE Result([room EXCEPT !.pendingVotes = (voterId :> targetPlayerId) @@ @], TRUE, "")

\* confirmVote that lets a voter confirm a second time
confirmVoteTwice(room, voterId) ==
    IF room.phase # "voting" THEN Result(room, FALSE, "INVALID_PHASE")
    ELSE IF voterId \notin DOMAIN room.players THEN Result(room, FALSE, "VOTER_NOT_IN_ROOM")
    ELSE IF voterId \notin DOMAIN room.pendingVotes THEN Result(room, FALSE, "NO_SELECTION")
    ELSE LET targetPlayerId == room.pendingVotes[voterId]
             confirmed == (voterId :> targetPlayerId) @@ room.confirmedVotes
         IN  Result([room EXCEPT !.confirmedVotes = confirmed,
                                 !.votes = (voterId :> targetPlayerId) @@ @],
                    TRUE, "") @@
                [allConfirmed |-> (Size(confirmed) = Cardinality(DOMAIN room.players))]

confirmVote(room, voterId) ==
    IF room.phase # "voting" THEN Result(room, FALSE, "INVALID_PHASE")
    ELSE IF voterId \notin DOMAIN room.players THEN Result(room, FALSE, "VOTER_NOT_IN_ROOM")
    ELSE IF voterId \notin DOMAIN room.pendingVotes THEN Result(room, FALSE, "NO_SELECTION")
    ELSE IF voterId \in DOMAIN room.confirmedVotes THEN Result(room, FALSE, "ALREADY_CONFIRMED")
    ELSE LET targetPlayerId == room.pendingVotes[voterId]
             confirmed == (voterId :> targetPlayerId) @@ room.confirmedVotes
         IN  Result([room EXCEPT !.confirmedVotes = confirmed,
                                 !.votes = (voterId :> targetPlayerId) @@ @],
                    TRUE, "") @@
                [allConfirmed |-> (Size(confirmed) = Cardinality(DOMAIN room.players))]

autoConfirmPendingVotes(room) ==
    IF room.phase # "voting" THEN Result(room, FALSE, "INVALID_PHASE") @@ [autoConfirmed |-> 0]
    ELSE LET todo == DOMAIN room.pendingVotes \ DOMAIN room.confirmedVotes
             moved == [v \in todo |-> room.pendingVotes[v]]
         IN  Result([room EXCEPT !.confirmedVotes = moved @@ @, !.votes = moved @@ @],
                    TRUE, "") @@ [autoConfirmed |-> Cardinality(todo)]

\* submitVote that lets a voter vote again
submitVoteAgain(room, voterId, targetPlayerId) ==
    IF room.phase # "voting" THEN Result(room, FALSE, "INVALID_PHASE")
    ELSE IF voterId \notin DOMAIN room.players THEN Result(room, FALSE, "VOTER_NOT_IN_ROOM")
    ELSE IF targetPlayerId \notin DOMAIN room.players THEN Result(room, FALSE, "TARGET_NOT_IN_ROOM")
    ELSE IF voterId = targetPlayerId THEN Result(room, FALSE, "CANNOT_VOTE_SELF")
    ELSE LET votes == (voterId :> targetPlayerId) @@ room.votes
         IN  Result([room EXCEPT !.votes = votes], TRUE, "") @@
                [allVoted |-> (Size(votes) = Cardinality(DOMAIN room.players))]

submitVote(room, voterId, targetPlayerId) ==
    IF room.phase # "voting" THEN Result(room, FALSE, "INVALID_PHASE")
    ELSE IF voterId \notin DOMAIN room.players THEN Result(room, FALSE, "VOTER_NOT_IN_ROOM")
    ELSE IF targetPlayerId \notin DOMAIN room.players THEN Result(room, FALSE, "TARGET_NOT_IN_ROOM")
    ELSE IF voterId = targetPlayerId THEN Result(room, FALSE, "CANNOT_VOTE_SELF")
    ELSE IF voterId \in DOMAIN room.votes THEN Result(room, FALSE, "ALREADY_VOTED")
    ELSE LET votes == (voterId :> targetPlayerId) @@ room.votes
         IN  Result([room EXCEPT !.votes = votes], TRUE, "") @@
                [allVoted |-> (Size(votes) = Cardinality(DOMAIN room.players))]

\* Steps 1 and 2 of calculateVoteResults: the tally over the players still in the room
VoteCounts(room) ==
    [p \in DOMAIN room.players |-> Cardinality({v \in DOMAIN room.votes : room.votes[v] = p})]

MaxVotes(voteCounts) ==
    IF \A p \in DOMAIN voteCounts : voteCounts[p] = 0 THEN 0
    ELSE CHOOSE m \in {voteCounts[p] : p \in DOMAIN voteCounts} :
            \A p \in DOMAIN voteCounts : voteCounts[p] <= m

PlayersWithMaxVotes(voteCounts) ==
    {p \in DOMAIN voteCounts : voteCounts[p] = MaxVotes(voteCounts)}

\* Array.prototype.sort((a, b) => b.votes - a.votes): stable, descending by votes
RECURSIVE SortByVotes(_, _)
SortByVotes(ids, voteCounts) ==
    IF ids = << >> THEN << >>
    ELSE LET top == CHOOSE m \in {voteCounts[ids[i]] : i \in DOMAIN ids} :
                        \A i \in DOMAIN ids : voteCounts[ids[i]] <= m
             k == Min({i \in DOMAIN ids : voteCounts[ids[i]] = top})
             rest == SubSeq(ids, 1, k - 1) \o SubSeq(ids, k + 1, Len(ids))
         IN  <<[playerId |-> ids[k], votes |-> top]>> \o SortByVotes(rest, voteCounts)

VoteSummary(room, voteCounts) == SortByVotes(SortedSeq(DOMAIN voteCounts), voteCounts)

\* finalizeResults: the phase is set before the log line that reads imposter.name,
\* which raises a TypeError when the imposter is no longer in room.players
finalizeResults(room, votedOutPlayerId, voteCounts) ==
    LET r2 == [room EXCEPT !.phase = "results"]
    IN  IF room.imposterId \notin DOMAIN room.players THEN Threw(r2) @@ [isTie |-> FALSE]
        ELSE Result(r2, TRUE, "") @@
                [isTie |-> FALSE,
                 results |-> [votedOutPlayer |-> votedOutPlayerId,
                              imposter |-> room.imposterId,
                              playersWin |-> (votedOutPlayerId = room.imposterId),
                              voteSummary |-> VoteSummary(room, voteCounts),
                              secretWord |-> room.word]]

calculateVoteResults(room) ==
    IF room.phase # "voting" THEN Result(room, FALSE, "INVALID_PHASE") @@ [isTie |-> FALSE]
    ELSE LET voteCounts == VoteCounts(room)
             top == PlayersWithMaxVotes(voteCounts)
         IN  IF Cardinality(top) > 1 THEN Result(room, FALSE, "") @@ [isTie |-> TRUE]
             ELSE finalizeResults(room, CHOOSE p \in top : TRUE, voteCounts)

\* transitionToPostGame without its phase precondition
transitionToPostGameAnyPhase(room) == Result([room EXCEPT !.phase = "postGame"], TRUE, "")

transitionToPostGame(room) ==
    IF room.phase # "results" THEN Result(room, FALSE, "INVALID_PHASE")
    ELSE Result([room EXCEPT !.phase = "postGame"], TRUE, "")

RoundFields ==
    {"topic", "word", "imposterId", "descriptions", "speakingOrder", "currentSpeakerIndex",
     "votes", "pendingVotes", "confirmedVotes", "chat", "postGameTimeoutId"}

\* A reset that keeps the chat of the finished game
resetRoomKeepsChat(room, requestingPlayerId) ==
    IF room.phase # "results" /\ room.phase # "postGame"
    THEN Result(room, FALSE, "INVALID_PHASE") @@ [cancelled |-> 0]
    ELSE IF room.hostId # requestingPlayerId THEN Result(room, FALSE, "NOT_HOST") @@ [cancelled |-> 0]
    ELSE IF Cardinality(DOMAIN room.players) < MIN_PLAYERS
    THEN Result(room, FALSE, "NOT_ENOUGH_PLAYERS") @@
            [cancelled |-> 0, required |-> MIN_PLAYERS, current |-> Cardinality(DOMAIN room.players)]
    ELSE Result([Del(room, RoundFields \ {"chat"}) EXCEPT !.phase = "lobby", !.gameNumber = @ + 1],
                TRUE, "") @@
            [cancelled |-> IF Has(room, "postGameTimeoutId") THEN room.postGameTimeoutId ELSE 0]

\* resetRoomForNewGame; `cancelled` is the postGame timeout it clears, 0 when none
resetRoomForNewGame(room, requestingPlayerId) ==
    IF room.phase # "results" /\ room.phase # "postGame"
    THEN Result(room, FALSE, "INVALID_PHASE") @@ [cancelled |-> 0]
    ELSE IF room.hostId # requestingPlayerId THEN Result(room, FALSE, "NOT_HOST") @@ [cancelled |-> 0]
    ELSE IF Cardinality(DOMAIN room.players) < MIN_PLAYERS
    THEN Result(room, FALSE, "NOT_ENOUGH_PLAYERS") @@
            [cancelled |-> 0, required |-> MIN_PLAYERS, current |-> Cardinality(DOMAIN room.players)]
    ELSE Result([Del(room, RoundFields) EXCEPT !.phase = "lobby", !.gameNumber = @ + 1], TRUE, "") @@
            [cancelled |-> IF Has(room, "postGameTimeoutId") THEN room.postGameTimeoutId ELSE 0]

\* A restart that goes ahead although the imposter has left the room
restartGameRoundWithoutImposter(room, tw, order) ==
    IF room.phase # "voting" THEN Result(room, FALSE, "INVALID_PHASE")
    ELSE IF ~Has(room, "imposterId") THEN Result(room, FALSE, "NO_IMPOSTER")
    ELSE Result([room EXCEPT !.topic = tw.topic, !.word = tw.word,
                             !.descriptions = EmptyMap, !.votes = EmptyMap,
                             !.pendingVotes = EmptyMap, !.confirmedVotes = EmptyMap,
                             !.chat = << >>,
                             !.phase = "description",
                             !.speakingOrder = order,
                             !.currentSpeakerIndex = 0],
                TRUE, "") @@
            [gameData |-> [topic |-> tw.topic, word |-> tw.word, imposterId |-> room.imposterId],
             speakingOrder |-> order]

\* A restart that leaves the tally map of the tied vote in place
restartGameRoundKeepsVotes(room, tw, order) ==
    IF room.phase # "voting" THEN Result(room, FALSE, "INVALID_PHASE")
    ELSE IF ~Has(room, "imposterId") THEN Result(room, FALSE, "NO_IMPOSTER")
    ELSE IF room.imposterId \notin DOMAIN room.players THEN Threw(room)
    ELSE Result([room EXCEPT !.topic = tw.topic, !.word = tw.word,
                             !.descriptions = EmptyMap,
                             !.pendingVotes = EmptyMap, !.confirmedVotes = EmptyMap,
                             !.chat = << >>,
                             !.phase = "description",
                             !.speakingOrder = order,
                             !.currentSpeakerIndex = 0],
                TRUE, "") @@
            [gameData |-> [topic |-> tw.topic, word |-> tw.word, imposterId |-> room.imposterId],
             speakingOrder |-> order]

\* restartGameRoundWithSameImposter: the log line that reads the imposter's name raises
\* a TypeError, before anything is assigned, when the imposter has left the room
restartGameRoundWithSameImposter(room, tw, order) ==
    IF room.phase # "voting" THEN Result(room, FALSE, "INVALID_PHASE")
    ELSE IF ~Has(room, "imposterId") THEN Result(room, FALSE, "NO_IMPOSTER")
    ELSE IF room.imposterId \notin DOMAIN room.players THEN Threw(room)
    ELSE Result([room EXCEPT !.topic = tw.topic, !.word = tw.word,
                             !.descriptions = EmptyMap, !.votes = EmptyMap,
                             !.pendingVotes = EmptyMap, !.confirmedVotes = EmptyMap,
                             !.chat = << >>,
                             !.phase = "description",
                             !.speakingOrder = order,
                             !.currentSpeakerIndex = 0],
                TRUE, "") @@
            [gameData |-> [topic |-> tw.topic, word |-> tw.word, imposterId |-> room.imposterId],
             speakingOrder |-> order]

(***************************************************************************)
(* Chat (roomManager.js).                                                  *)
(***************************************************************************)
\* addChatMessage: the results it can return; the rate limit, which depends on the
\* clock, either lets the message through or refuses it
addChatMessage(room, playerId, text) ==
    IF room.phase # "voting" THEN {Result(room, FALSE, "CHAT_NOT_AVAILABLE")}
    ELSE IF playerId \notin DOMAIN room.players THEN {Result(room, FALSE, "PLAYER_NOT_IN_ROOM")}
    ELSE IF Trim(text) = "" THEN {Result(room, FALSE, "EMPTY_MESSAGE")}
    ELSE {Result(room, FALSE, "RATE_LIMITED"),
          Result([room EXCEPT !.chat = Append(@, [senderId |-> playerId,
                                                  senderName |-> room.players[playerId].name,
                                                  text |-> Trim(text)])],
                 TRUE, "")}

\* The records `room` stands for once the chat of its voting phase is counted in: the
\* chat is written by addChatMessage in voting and kept as it is through results and
\* postGame
ChatStates(room) ==
    IF ~Has(room, "chat") \/ room.phase \notin {"voting", "results", "postGame"} THEN {room}
    ELSE {[room EXCEPT !.chat = r.room.chat] :
             r \in UNION {addChatMessage([room EXCEPT !.phase = "voting"], p, text)
                            : p \in DOMAIN room.players, text \in Texts}}

(***************************************************************************)
(* Timer manager (timerManager module).                                    *)
(***************************************************************************)
\* A clearTimer that leaves the interval running
clearTimerLeavesInterval(timers, roomCode) == timers

clearTimer(timers, roomCode) == [c \in DOMAIN timers \ {roomCode} |-> timers[c]]

\* startTimer(roomCode, phase, onTick, onExpire): a phase without an entry in
\* PHASE_DURATIONS gets no timer (the previous one is cleared all the same)
startTimer(timers, roomCode, phase) ==
    IF phase \notin DOMAIN PHASE_DURATIONS THEN clearTimer(timers, roomCode)
    ELSE (roomCode :> [phase |-> phase, remainingSeconds |-> PHASE_DURATIONS[phase]])
            @@ clearTimer(timers, roomCode)

(***************************************************************************)
(* Room settings (roomManager.js).                                         *)
(***************************************************************************)
\* The values a client sends for a setting, as text
Numerals == ("4" :> 4) @@ ("20" :> 20) @@ ("200" :> 200)
SettingTexts == DOMAIN Numerals \cup {"abc"}

\* parseInt(value, 10)
ParseInt(text) ==
    IF text \in DOMAIN Numerals THEN [isNaN |-> FALSE, value |-> Numerals[text]]
    ELSE [isNaN |-> TRUE, value |-> 0]

\* The newSettings objects explored: each field sent or left out
SettingInputs ==
    UNION {[F -> SettingTexts] : F \in SUBSET {"descriptionTime", "votingTime"}}

OutOfRange(text, limits) ==
    LET parsed == ParseInt(text)
    IN  parsed.isNaN \/ parsed.value < limits.min \/ parsed.value > limits.max

\* updateRoomSettings: the fields are validated and applied one after the other
updateRoomSettings(room, playerId, newSettings) ==
    IF room.phase # "lobby" /\ room.phase # "postGame" THEN Result(room, FALSE, "INVALID_PHASE")
    ELSE IF room.hostId # playerId THEN Result(room, FALSE, "NOT_HOST")
    ELSE IF "descriptionTime" \in DOMAIN newSettings
            /\ OutOfRange(newSettings.descriptionTime, SETTINGS_LIMITS.descriptionTime)
    THEN Result(room, FALSE, "INVALID_VALUE") @@ [field |-> "descriptionTime"]
    ELSE LET r1 == IF "descriptionTime" \in DOMAIN newSettings
                   THEN [room EXCEPT !.settings.descriptionTime =
                                        ParseInt(newSettings.descriptionTime).value]
                   ELSE room
         IN  IF "votingTime" \in DOMAIN newSettings
                /\ OutOfRange(newSettings.votingTime, SETTINGS_LIMITS.votingTime)
             THEN Result(r1, FALSE, "INVALID_VALUE") @@ [field |-> "votingTime"]
             ELSE Result(IF "votingTime" \in DOMAIN newSettings
                         THEN [r1 EXCEPT !.settings.votingTime = ParseInt(newSettings.votingTime).value]
                         ELSE r1,
                         TRUE, "") @@ [field |-> ""]

(***************************************************************************)
(* Handlers (server.js).  A handler works on the server state `st`:        *)
(* registry, timers, pending postGame callbacks, the messages emitted so   *)
(* far, and whether an exception escaped.  Helpers yield the set of states *)
(* the handler can leave behind (one per outcome of the random draws).     *)
(***************************************************************************)
ToRoom(c) == [kind |-> "room", id |-> c]
ToSocket(s) == [kind |-> "socket", id |-> s]
ToOthers(c, s) == [kind |-> "others", id |-> c, except |-> s]
ToAck(s) == [kind |-> "ack", id |-> s]
Msg(to, event, payload) == [to |-> to, event |-> event, payload |-> payload]

Emit(st, m) == [st EXCEPT !.out = @ \cup {m}]
SetRoom(st, c, room) == [st EXCEPT !.rooms[c] = room]
Crash(st) == [st EXCEPT !.crashed = TRUE]

\* onTimerTick
onTimerTick(st, c, phase, remainingSeconds) ==
    Emit(st, Msg(ToRoom(c), "game:timer", [phase |-> phase, remainingSeconds |-> remainingSeconds]))

\* startPhaseTimer / startSpeakerTurnTimer: timerManager.startTimer and its first onTick
startPhaseTimer(st, c, phase) ==
    LET t2 == startTimer(st.timers, c, phase)
        st2 == [st EXCEPT !.timers = t2]
    IN  IF c \in DOMAIN t2 THEN onTimerTick(st2, c, phase, t2[c].remainingSeconds) ELSE st2

startSpeakerTurnTimer(st, c) == startPhaseTimer(st, c, "descriptionTurn")

SpeakingOrderPayload(room, order) ==
    [i \in DOMAIN order |-> [id |-> order[i], name |-> room.players[order[i]].name]]

\* transitionToDescriptionPhaseWithTimer
transitionToDescriptionPhaseWithTimer(st, c) ==
    LET st1 == [st EXCEPT !.timers = clearTimer(@, c)]
    IN  IF c \notin DOMAIN st.rooms THEN {st1}
        ELSE {LET r == transitionToDescriptionPhase(st.rooms[c], order)
              IN  IF ~r.success THEN [st1 EXCEPT !.res = Del(r, {"room"})]
                  ELSE startSpeakerTurnTimer(
                         Emit(Emit([SetRoom(st1, c, r.room) EXCEPT !.res = Del(r, {"room"})],
                                   Msg(ToRoom(c), "game:phaseChanged",
                                       [phase |-> "description", room |-> serializeRoom(r.room),
                                        speakingOrder |-> SpeakingOrderPayload(r.room, order),
                                        currentSpeakerIndex |-> 0])),
                              Msg(ToRoom(c), "game:speakerTurn",
                                  [speakerId |-> order[1], speakerIndex |-> 0])),
                         c)
              : order \in shuffleArray(PlayerIds(st.rooms[c]))}

\* handleDescriptionPhaseComplete
handleDescriptionPhaseComplete(st, c) ==
    LET st1 == [st EXCEPT !.timers = clearTimer(@, c)]
    IN  IF c \notin DOMAIN st.rooms THEN st1
        ELSE LET descs == getAttributedDescriptions(st.rooms[c])
                 r == transitionToVotingPhase(st.rooms[c])
             IN  IF ~r.success THEN st1
                 ELSE startPhaseTimer(
                        Emit([SetRoom(st1, c, r.room) EXCEPT
                                 !.pg = {t \in @ : ~(t.code = c /\ t.id = r.cancelled)}],
                             Msg(ToRoom(c), "game:descriptionPhaseEnded",
                                 [phase |-> "voting", room |-> serializeRoom(r.room),
                                  descriptions |-> descs])),
                        c, "voting")

\* The per-player game:roleAssigned messages of a round start
\* (`player` records whose role the message carries; a null word is << >>)
\* A role distribution that gives every player the word
RoleMessagesWordToAll(room, gameData, imposterWordField) ==
    {Msg(ToSocket(room.players[p].socketId), "game:roleAssigned",
         [isImposter |-> (p = gameData.imposterId), topic |-> gameData.topic, word |-> gameData.word])
        @@ [player |-> p, code |-> room.code]
     : p \in DOMAIN room.players}

RoleMessages(room, gameData, imposterWordField) ==
    {Msg(ToSocket(room.players[p].socketId), "game:roleAssigned",
         IF p = gameData.imposterId
         THEN IF imposterWordField
              THEN [isImposter |-> TRUE, topic |-> gameData.topic, word |-> << >>]
              ELSE [isImposter |-> TRUE, topic |-> gameData.topic]
         ELSE [isImposter |-> FALSE, topic |-> gameData.topic, word |-> gameData.word])
        @@ [player |-> p, code |-> room.code]
     : p \in DOMAIN room.players}

\* handleVotingComplete
handleVotingComplete(st, c) ==
    LET st1 == [st EXCEPT !.timers = clearTimer(@, c)]
    IN  IF c \notin DOMAIN st.rooms THEN {[st1 EXCEPT !.res = Result(<< >>, FALSE, "ROOM_NOT_FOUND")]}
        ELSE
        LET room == st.rooms[c]
            result == calculateVoteResults(room)
            st2 == [SetRoom(st1, c, result.room) EXCEPT !.res = Del(result, {"room"})]
        IN  IF result.threw THEN {Crash(st2)}
            ELSE IF result.isTie
            THEN {LET rr == restartGameRoundWithSameImposter(room, tw, order)
                      st3 == [SetRoom(st2, c, rr.room) EXCEPT !.res2 = Del(rr, {"room"})]
                  IN  IF rr.threw THEN Crash(st3)
                      ELSE IF ~rr.success THEN st3
                      ELSE startPhaseTimer(
                             [st3 EXCEPT
                                 !.out = @ \cup RoleMessages(rr.room, rr.gameData, TRUE) \cup
                                    {Msg(ToRoom(c), "game:tieReplayStarted",
                                         [topic |-> rr.gameData.topic,
                                          speakingOrder |-> SpeakingOrderPayload(rr.room, order)]),
                                     Msg(ToRoom(c), "game:phaseChanged",
                                         [phase |-> "description", room |-> serializeRoom(rr.room),
                                          speakingOrder |-> SpeakingOrderPayload(rr.room, order),
                                          currentSpeakerIndex |-> 0]),
                                     Msg(ToRoom(c), "game:speakerTurn",
                                         [speakerId |-> order[1], speakerIndex |-> 0])}],
                             c, "description")
                  : tw \in TopicWordDraws, order \in shuffleArray(PlayerIds(room))}
            ELSE IF ~result.success THEN {st2}
            ELSE {[Emit(SetRoom(st2, c, Put(result.room, "postGameTimeoutId", result.room.createdAt)),
                        Msg(ToRoom(c), "game:results",
                            [phase |-> "results", room |-> serializeRoom(result.room),
                             votedOutPlayer |-> result.results.votedOutPlayer,
                             imposter |-> result.results.imposter,
                             playersWin |-> result.results.playersWin,
                             voteSummary |-> result.results.voteSummary,
                             secretWord |-> result.results.secretWord]))
                   EXCEPT !.pg = @ \cup {[code |-> c, id |-> result.room.createdAt]}]}

\* handleDescriptionTimeout
handleDescriptionTimeout(st, c) ==
    IF c \notin DOMAIN st.rooms THEN st
    ELSE LET r == autoSubmitMissingDescriptions(st.rooms[c])
         IN  IF ~r.success THEN st
             ELSE LET st1 == SetRoom(st, c, r.room)
                      st2 == IF r.autoSubmittedCount > 0
                             THEN Emit(st1, Msg(ToRoom(c), "game:descriptionSubmitted",
                                                [submittedCount |-> Cardinality(DOMAIN r.room.players)]))
                             ELSE st1
                  IN  handleDescriptionPhaseComplete(st2, c)

\* handleVotingTimeout
handleVotingTimeout(st, c) ==
    IF c \notin DOMAIN st.rooms THEN handleVotingComplete(st, c)
    ELSE LET r == autoConfirmPendingVotes(st.rooms[c])
             st1 == SetRoom(st, c, r.room)
             st2 == IF r.success /\ r.autoConfirmed > 0
                    THEN Emit(st1, Msg(ToRoom(c), "game:voteConfirmed",
                                       [confirmedCount |-> Size(r.room.confirmedVotes)]))
                    ELSE st1
         IN  handleVotingComplete(st2, c)

\* onTimerExpire
onTimerExpire(st, c, phase) ==
    IF phase = "roleReveal" THEN transitionToDescriptionPhaseWithTimer(st, c)
    ELSE IF phase = "description" THEN {handleDescriptionTimeout(st, c)}
    ELSE IF phase = "voting" THEN handleVotingTimeout(st, c)
    ELSE {st}

\* The tally getRejoinState recomputes: confirmedVotes || votes || {}
RejoinVoteCounts(room) ==
    LET votes == IF Has(room, "confirmedVotes") THEN room.confirmedVotes
                 ELSE IF Has(room, "votes") THEN room.votes ELSE EmptyMap
    IN  [p \in DOMAIN room.players |-> Cardinality({v \in DOMAIN votes : votes[v] = p})]

\* getRejoinState(roomCode, playerId) for a player of the room
getRejoinState(room, playerId) ==
    LET s0 == [phase |-> room.phase, gameNumber |-> IF room.gameNumber = 0 THEN 1 ELSE room.gameNumber]
        inGame == room.phase # "lobby" /\ room.phase # "postGame" /\ Has(room, "imposterId")
        s1 == IF inGame THEN Put(s0, "isImposter", playerId = room.imposterId) ELSE s0
        s2 == IF inGame /\ playerId # room.imposterId /\ Has(room, "word")
              THEN Put(s1, "word", room.word) ELSE s1
        s3 == IF room.phase = "voting" /\ Has(room, "pendingVotes") /\ playerId \in DOMAIN room.pendingVotes
              THEN Put(s2, "selectedVote", room.pendingVotes[playerId]) ELSE s2
        s4 == IF room.phase = "voting" /\ Has(room, "confirmedVotes")
              THEN Put(s3, "hasVoted", playerId \in DOMAIN room.confirmedVotes) ELSE s3
    IN  IF room.phase \in {"results", "postGame"}
        THEN Put(s4, "results",
                 [imposter |-> IF Has(room, "imposterId") /\ room.imposterId \in DOMAIN room.players
                               THEN room.imposterId ELSE 0,
                  secretWord |-> IF Has(room, "word") THEN room.word ELSE << >>,
                  voteSummary |-> VoteSummary(room, RejoinVoteCounts(room))])
        ELSE s4

\* The server state a handler starts from: the registry, the timers, the pending postGame
\* callbacks, the id counters; `out` collects what it emits, `res` and `res2` the results
\* of the room operations it called
St0 ==
    [rooms |-> rooms, timers |-> roomTimers, pg |-> postGameTimeouts,
     ids |-> nextId, socks |-> nextSock, out |-> {},
     crashed |-> FALSE, res |-> << >>, res2 |-> << >>]

Ack(st, s, event, payload) == Emit(st, Msg(ToAck(s), event, payload))
Fail(st, s, event, error) == Ack(st, s, event, [success |-> FALSE, error |-> error])
Bind(st, s) == IF s = st.socks THEN [st EXCEPT !.socks = @ + 1] ELSE st

(***************************************************************************)
(* Socket event handlers: the states each can leave behind.                *)
(***************************************************************************)
\* room:create, with the k-th unused code as generateRoomCode's draw
OnRoomCreate(s, k) ==
    LET code == SortedSeq(Codes \ DOMAIN rooms)[k + 1]
        room == createRoom(code, FreshName(nextId), s)
    IN  {Ack(Bind([St0 EXCEPT !.rooms = (code :> room) @@ @, !.ids = @ + 1], s), s, "room:create",
             [success |-> TRUE, room |-> serializeRoom(room), player |-> nextId])}

\* The names a room:join can carry: a new one, or an existing player's in either case
JoinNames(code) ==
    {FreshName(nextId)} \cup
    (IF code \in DOMAIN rooms
     THEN UNION {{rooms[code].players[p].name, OtherCase(rooms[code].players[p].name)}
                 : p \in DOMAIN rooms[code].players}
     ELSE {})

\* room:join
OnRoomJoin(s, rc, playerName) ==
    LET code == ToUpperCase(rc)
    IN  IF code \notin DOMAIN rooms THEN {Fail(St0, s, "room:join", "ROOM_NOT_FOUND")}
        ELSE
        LET rejoinResult == attemptRejoin(rooms[code], playerName, s)
            result == joinRoom(rooms[code], playerName, s)
        IN  IF rejoinResult.success
            THEN {[Bind(SetRoom(St0, code, rejoinResult.room), s) EXCEPT
                     !.res = Del(rejoinResult, {"room"}),
                     !.out = {Msg(ToAck(s), "room:join",
                                  getRejoinState(rejoinResult.room, rejoinResult.id)) @@
                              [success |-> TRUE, isRejoin |-> TRUE,
                               room |-> serializeRoom(rejoinResult.room),
                               player |-> rejoinResult.id, code |-> code]}]}
            ELSE IF result.error # ""
            THEN {[Fail(St0, s, "room:join", result.error) EXCEPT !.res = Del(result, {"room"})]}
            ELSE {Ack(Emit([Bind(SetRoom(St0, code, result.room), s) EXCEPT
                               !.ids = @ + 1, !.res = Del(result, {"room"})],
                           Msg(ToOthers(code, s), "player:joined",
                               [player |-> result.id, room |-> serializeRoom(result.room)])),
                      s, "room:join",
                      [success |-> TRUE, room |-> serializeRoom(result.room), player |-> result.id])}

\* game:start
OnGameStart(s) ==
    LET playerData == getPlayerBySocketId(rooms, s)
        c == playerData.code
    IN  IF c = 0 THEN {Fail(St0, s, "game:start", "NOT_IN_ROOM")}
        ELSE {LET result == startGame(rooms[c], playerData.id, tw, k)
                  st == [St0 EXCEPT !.res = Del(result, {"room"})]
              IN  IF ~result.success THEN Fail(st, s, "game:start", result.error)
                  ELSE startPhaseTimer(
                          Ack([SetRoom(st, c, result.room) EXCEPT
                                 !.out = RoleMessages(result.room, result.gameData, FALSE) \cup
                                         {Msg(ToRoom(c), "game:started",
                                              [room |-> serializeRoom(result.room),
                                               topic |-> result.gameData.topic])}],
                              s, "game:start",
                              [success |-> TRUE, room |-> serializeRoom(result.room)]),
                          c, "roleReveal")
              : tw \in TopicWordDraws, k \in RandomBelow(Cardinality(DOMAIN rooms[c].players), MaxRand)}

\* game:playAgain
OnPlayAgain(s) ==
    LET playerData == getPlayerBySocketId(rooms, s)
        c == playerData.code
    IN  IF c = 0 THEN {Fail(St0, s, "game:playAgain", "NOT_IN_ROOM")}
        ELSE LET result == resetRoomForNewGame(rooms[c], playerData.id)
                 st == [St0 EXCEPT !.res = Del(result, {"room"})]
             IN  IF ~result.success THEN {Fail(st, s, "game:playAgain", result.error)}
                 ELSE {Ack(Emit([SetRoom(st, c, result.room) EXCEPT
                                    !.pg = {t \in @ : ~(t.code = c /\ t.id = result.cancelled)}],
                                Msg(ToRoom(c), "game:reset",
                                    [room |-> serializeRoom(result.room),
                                     gameNumber |-> result.room.gameNumber])),
                           s, "game:playAgain",
                           [success |-> TRUE, room |-> serializeRoom(result.room)])}

\* game:startDescriptionPhase
OnStartDescriptionPhase(s) ==
    LET playerData == getPlayerBySocketId(rooms, s)
        c == playerData.code
    IN  IF c = 0 THEN {Fail(St0, s, "game:startDescriptionPhase", "NOT_IN_ROOM")}
        ELSE IF rooms[c].hostId # playerData.id
        THEN {Fail(St0, s, "game:startDescriptionPhase", "NOT_HOST")}
        ELSE {Ack(st, s, "game:startDescriptionPhase",
                  [success |-> TRUE, room |-> serializeRoom(st.rooms[c])])
              : st \in transitionToDescriptionPhaseWithTimer(St0, c)}

\* game:submitDescription
OnSubmitDescription(s, text) ==
    LET playerData == getPlayerBySocketId(rooms, s)
        c == playerData.code
    IN  IF c = 0 THEN {Fail(St0, s, "game:submitDescription", "NOT_IN_ROOM")}
        ELSE
        LET result == submitDescription(rooms[c], playerData.id, text)
            st == [St0 EXCEPT !.res = Del(result, {"room"})]
        IN  IF ~result.success THEN {Fail(st, s, "game:submitDescription", result.error)}
            ELSE
            LET count == Size(result.room.descriptions)
                total == Cardinality(DOMAIN result.room.players)
                st1 == Ack(Emit([SetRoom(st, c, result.room) EXCEPT !.timers = clearTimer(@, c)],
                                Msg(ToRoom(c), "game:descriptionSubmitted",
                                    [submittedCount |-> count, totalPlayers |-> total,
                                     playerId |-> result.submittedBy,
                                     description |-> result.description,
                                     isAutoSubmit |-> FALSE])),
                           s, "game:submitDescription",
                           [success |-> TRUE, submittedCount |-> count, totalPlayers |-> total])
                speakerResult == getCurrentSpeaker(result.room)
            IN  IF result.allSubmitted THEN {handleDescriptionPhaseComplete(st1, c)}
                ELSE IF speakerResult.success /\ ~speakerResult.allComplete
                THEN {startSpeakerTurnTimer(
                         Emit(SetRoom(st1, c, speakerResult.room),
                              Msg(ToRoom(c), "game:speakerTurn",
                                  [speakerId |-> speakerResult.currentSpeaker,
                                   speakerIndex |-> speakerResult.room.currentSpeakerIndex])),
                         c)}
                ELSE {SetRoom(st1, c, speakerResult.room)}

\* game:submitVote (target 0 stands for a missing targetPlayerId)
OnSubmitVote(s, targetPlayerId) ==
    LET playerData == getPlayerBySocketId(rooms, s)
        c == playerData.code
    IN  IF targetPlayerId = 0 THEN {Fail(St0, s, "game:submitVote", "INVALID_TARGET")}
        ELSE IF c = 0 THEN {Fail(St0, s, "game:submitVote", "NOT_IN_ROOM")}
        ELSE
        LET result == submitVote(rooms[c], playerData.id, targetPlayerId)
            st == [St0 EXCEPT !.res = Del(result, {"room"})]
        IN  IF ~result.success THEN {Fail(st, s, "game:submitVote", result.error)}
            ELSE
            LET count == Size(result.room.votes)
                total == Cardinality(DOMAIN result.room.players)
                st1 == Ack(Emit(SetRoom(st, c, result.room),
                                Msg(ToRoom(c), "game:voteSubmitted",
                                    [votedCount |-> count, totalPlayers |-> total])),
                           s, "game:submitVote",
                           [success |-> TRUE, votedCount |-> count, totalPlayers |-> total])
            IN  IF result.allVoted
                THEN handleVotingComplete([st1 EXCEPT !.timers = clearTimer(@, c)], c)
                ELSE {st1}

\* game:selectVote
OnSelectVote(s, targetPlayerId) ==
    LET playerData == getPlayerBySocketId(rooms, s)
        c == playerData.code
    IN  IF targetPlayerId = 0 THEN {Fail(St0, s, "game:selectVote", "INVALID_TARGET")}
        ELSE IF c = 0 THEN {Fail(St0, s, "game:selectVote", "NOT_IN_ROOM")}
        ELSE LET result == selectVote(rooms[c], playerData.id, targetPlayerId)
                 st == [St0 EXCEPT !.res = Del(result, {"room"})]
             IN  IF ~result.success THEN {Fail(st, s, "game:selectVote", result.error)}
                 ELSE {Ack(SetRoom(st, c, result.room), s, "game:selectVote", [success |-> TRUE])}

\* game:confirmVote
OnConfirmVote(s) ==
    LET playerData == getPlayerBySocketId(rooms, s)
        c == playerData.code
    IN  IF c = 0 THEN {Fail(St0, s, "game:confirmVote", "NOT_IN_ROOM")}
        ELSE
        LET result == confirmVote(rooms[c], playerData.id)
            st == [St0 EXCEPT !.res = Del(result, {"room"})]
        IN  IF ~result.success THEN {Fail(st, s, "game:confirmVote", result.error)}
            ELSE
            LET count == Size(result.room.confirmedVotes)
                total == Cardinality(DOMAIN result.room.players)
                st1 == Ack(Emit(SetRoom(st, c, result.room),
                                Msg(ToRoom(c), "game:voteConfirmed",
                                    [confirmedCount |-> count, totalPlayers |-> total])),
                           s, "game:confirmVote",
                           [success |-> TRUE, confirmedCount |-> count, totalPlayers |-> total])
            IN  IF result.allConfirmed
                THEN handleVotingComplete([st1 EXCEPT !.timers = clearTimer(@, c)], c)
                ELSE {st1}

\* handlePlayerLeave, after the removal, for a room that still exists
AfterLeave(st, c, playerId, phase, cleanup, newHostId) ==
    LET updatedRoom == st.rooms[c]
        st1 == IF phase # "lobby"
               THEN Emit(st, Msg(ToRoom(c), "game:playerDisconnected", [playerId |-> playerId, phase |-> phase]))
               ELSE st
        st2 == Emit(st1, Msg(ToRoom(c), "player:left",
                             [playerId |-> playerId, room |-> serializeRoom(updatedRoom),
                              newHostId |-> newHostId]))
        st3 == IF newHostId # 0
               THEN Emit(st2, Msg(ToRoom(c), "room:hostChanged",
                                  [newHostId |-> newHostId, room |-> serializeRoom(updatedRoom)]))
               ELSE st2
        progress == Msg(ToRoom(c), "game:descriptionSubmitted",
                        [submittedCount |-> IF Has(updatedRoom, "descriptions")
                                            THEN Size(updatedRoom.descriptions) ELSE 0,
                         totalPlayers |-> Cardinality(DOMAIN updatedRoom.players)])
    IN  IF phase = "description" /\ cleanup.descriptionComplete
        THEN {handleDescriptionPhaseComplete([st3 EXCEPT !.timers = clearTimer(@, c)], c)}
        ELSE IF phase = "description" /\ cleanup.wasCurrentSpeaker
        THEN LET st4 == Emit([st3 EXCEPT !.timers = clearTimer(@, c)],
                             progress @@ [auto |-> playerId])
             IN  IF cleanup.newSpeakerIndex >= Len(updatedRoom.speakingOrder)
                 THEN {handleDescriptionPhaseComplete(st4, c)}
                 ELSE {startSpeakerTurnTimer(st4, c)}
        ELSE IF phase = "description" THEN {Emit(st3, progress)}
        ELSE IF phase = "voting" /\ cleanup.votingComplete
        THEN handleVotingComplete([st3 EXCEPT !.timers = clearTimer(@, c)], c)
        ELSE IF phase = "voting"
        THEN {Emit(st3, Msg(ToRoom(c), "game:voteConfirmed",
                            [confirmedCount |-> IF Has(updatedRoom, "confirmedVotes")
                                                THEN Size(updatedRoom.confirmedVotes) ELSE 0,
                             totalPlayers |-> Cardinality(DOMAIN updatedRoom.players)]))}
        ELSE {st3}

\* room:leave and disconnect
handlePlayerLeave(s) ==
    LET playerData == getPlayerBySocketId(rooms, s)
        c == playerData.code
    IN  IF c = 0 THEN {Ack(St0, s, "room:leave", [success |-> TRUE])}
        ELSE
        LET phase == rooms[c].phase
            cleanup == handlePlayerDisconnectMidGame(rooms[c], playerData.id)
            reg == IF phase # "lobby" THEN [rooms EXCEPT ![c] = cleanup.room] ELSE rooms
            result == removePlayerBySocketId(reg, s)
            st == [St0 EXCEPT !.rooms = result.rooms, !.res = Del(cleanup, {"room"})]
        IN  IF result.roomDeleted
            THEN {Ack([st EXCEPT !.timers = clearTimer(@, c)], s, "room:leave", [success |-> TRUE])}
            ELSE {IF st2.crashed THEN st2 ELSE Ack(st2, s, "room:leave", [success |-> TRUE])
                  : st2 \in AfterLeave(st, c, playerData.id, phase, cleanup, result.newHostId)}

(***************************************************************************)
(* Timer callbacks.                                                        *)
(***************************************************************************)
\* The callback with its test as remainingSeconds < 0: the run that reaches zero leaves
\* the timer in place
RECURSIVE IntervalCallbacksExpireLate(_, _, _)
IntervalCallbacksExpireLate(st, c, n) ==
    IF n = 0 THEN {st}
    ELSE LET timer == st.timers[c]
             remainingSeconds == timer.remainingSeconds - 1
             st1 == onTimerTick([st EXCEPT !.timers[c].remainingSeconds = remainingSeconds],
                                c, timer.phase, remainingSeconds)
         IN  IF remainingSeconds < 0
             THEN onTimerExpire([st1 EXCEPT !.timers = clearTimer(@, c)], c, timer.phase)
             ELSE IntervalCallbacksExpireLate(st1, c, n - 1)

\* n consecutive runs of the setInterval callback of room c's timer; the run that
\* reaches zero clears the timer and calls onExpire
RECURSIVE IntervalCallbacks(_, _, _)
IntervalCallbacks(st, c, n) ==
    IF n = 0 THEN {st}
    ELSE LET timer == st.timers[c]
             remainingSeconds == timer.remainingSeconds - 1
             st1 == onTimerTick([st EXCEPT !.timers[c].remainingSeconds = remainingSeconds],
                                c, timer.phase, remainingSeconds)
         IN  IF remainingSeconds <= 0
             THEN onTimerExpire([st1 EXCEPT !.timers = clearTimer(@, c)], c, timer.phase)
             ELSE IntervalCallbacks(st1, c, n - 1)

\* clearPostGameTimeout
clearPostGameTimeout(st, c) ==
    IF c \in DOMAIN st.rooms /\ Has(st.rooms[c], "postGameTimeoutId") /\ st.rooms[c].postGameTimeoutId # 0
    THEN [st EXCEPT !.pg = {t \in @ : ~(t.code = c /\ t.id = st.rooms[c].postGameTimeoutId)},
                    !.rooms[c].postGameTimeoutId = 0]
    ELSE st

\* The setTimeout callback of handleVotingComplete
OnPostGameTimeout(t) ==
    LET c == t.code
        st == [St0 EXCEPT !.pg = @ \ {t}]
        postGameResult == IF c \in DOMAIN rooms THEN transitionToPostGame(rooms[c])
                          ELSE Result(<< >>, FALSE, "ROOM_NOT_FOUND")
        st1 == [st EXCEPT !.res = Del(postGameResult, {"room"})]
        st2 == IF postGameResult.success
               THEN Emit(SetRoom(st1, c, postGameResult.room),
                         Msg(ToRoom(c), "game:phaseChanged",
                             [phase |-> "postGame", room |-> serializeRoom(postGameResult.room)]))
               ELSE st1
    IN  {clearPostGameTimeout(st2, c)}

(***************************************************************************)
(* The server: one step is one handler run to completion.                  *)
(***************************************************************************)
\* Players to whom a message of `out` carried the word of room c
WordReceivers(st, c) ==
    IF c \notin DOMAIN st.rooms \/ ~Has(st.rooms[c], "word") THEN {}
    ELSE {m.player : m \in {x \in st.out : /\ "player" \in DOMAIN x
                                           /\ "word" \in DOMAIN x.payload
                                           /\ x.payload.word = st.rooms[c].word
                                           /\ x.code = c}}

RoundStarted(st, c) ==
    \E m \in st.out : m.to = ToRoom(c) /\ m.event \in {"game:started", "game:tieReplayStarted"}

\* What a handler leaves behind, with the records kept for each round in progress: who
\* was in the room when it started and who has been sent its word since
Commit(st) ==
    /\ rooms' = st.rooms
    /\ roomTimers' = st.timers
    /\ postGameTimeouts' = st.pg
    /\ crashed' = st.crashed
    /\ nextId' = st.ids
    /\ nextSock' = st.socks
    /\ LET live == {d \in DOMAIN st.rooms : st.rooms[d].phase \in {"roleReveal", "description", "voting"}}
       IN  /\ roundPlayers' = [d \in live |->
                                 IF RoundStarted(st, d) \/ d \notin DOMAIN roundPlayers
                                 THEN DOMAIN st.rooms[d].players ELSE roundPlayers[d]]
           /\ wordSentTo' = [d \in live |->
                                 IF RoundStarted(st, d) \/ d \notin DOMAIN wordSentTo
                                 THEN WordReceivers(st, d) ELSE wordSentTo[d] \cup WordReceivers(st, d)]

RoomCreate(s) ==
    /\ ~crashed
    /\ nextId <= MaxIds
    /\ \E k \in RandomBelow(Cardinality(Codes \ DOMAIN rooms), MaxRand) : \E st \in OnRoomCreate(s, k) : Commit(st)

RoomJoin(s, rc, playerName) ==
    /\ ~crashed
    /\ \E st \in OnRoomJoin(s, rc, playerName) : st.ids <= MaxIds + 1 /\ Commit(st)

Leave(s) == ~crashed /\ \E st \in handlePlayerLeave(s) : Commit(st)

GameStart(s) ==
    /\ ~crashed
    /\ \E st \in OnGameStart(s) :
          /\ \A c \in DOMAIN rooms : st.rooms[c] # rooms[c] => rooms[c].gameNumber < MaxGames
          /\ Commit(st)

PlayAgain(s) == ~crashed /\ \E st \in OnPlayAgain(s) : Commit(st)

StartDescriptionPhase(s) == ~crashed /\ \E st \in OnStartDescriptionPhase(s) : Commit(st)

SubmitDescription(s, text) == ~crashed /\ \E st \in OnSubmitDescription(s, text) : Commit(st)

SubmitVote(s, targetPlayerId) == ~crashed /\ \E st \in OnSubmitVote(s, targetPlayerId) : Commit(st)

SelectVote(s, targetPlayerId) == ~crashed /\ \E st \in OnSelectVote(s, targetPlayerId) : Commit(st)

ConfirmVote(s) == ~crashed /\ \E st \in OnConfirmVote(s) : Commit(st)

TimerTick(c) ==
    /\ ~crashed
    /\ c \in DOMAIN roomTimers
    /\ \E st \in IntervalCallbacks(St0, c, TickBatch) : Commit(st)

PostGameTimeout(t) == ~crashed /\ \E st \in OnPostGameTimeout(t) : Commit(st)

Init ==
    /\ rooms = << >>
    /\ nextId = 1
    /\ nextSock = 1
    /\ roomTimers = << >>
    /\ postGameTimeouts = {}
    /\ crashed = FALSE
    /\ roundPlayers = << >>
    /\ wordSentTo = << >>

VoteTargets == 0..MaxTargets

Next ==
    \/ \E s \in FreshSockets : RoomCreate(s)
    \/ \E s \in FreshSockets, rc \in CodeInputs : \E playerName \in JoinNames(ToUpperCase(rc)) :
          RoomJoin(s, rc, playerName)
    \/ \E s \in EventSockets : Leave(s)
    \/ \E s \in EventSockets : GameStart(s)
    \/ \E s \in EventSockets : PlayAgain(s)
    \/ \E s \in EventSockets : StartDescriptionPhase(s)
    \/ \E s \in EventSockets : SubmitDescription(s, Clue)
    \/ \E s \in EventSockets, t \in VoteTargets : SelectVote(s, t)
    \/ \E s \in EventSockets : ConfirmVote(s)
    \/ \E c \in Codes : TimerTick(c)
    \/ \E t \in postGameTimeouts : PostGameTimeout(t)

\* The whole server: every handler from the moment the server starts listening, with
\* the two-step voting path
Spec == Init /\ [][Next]_vars

\* A timer's setInterval callback can run: the timer is live and the process is up
TimerLive(c) == ~crashed /\ c \in DOMAIN roomTimers

\* WF_vars(TimerTick(c)) for every room, with ENABLED <<TimerTick(c)>>_vars written
\* out as TimerLive(c): a callback run always changes or removes the timer
TimersKeepTicking ==
    \A c \in Codes : []<>~TimerLive(c) \/ []<><<TimerTick(c)>>_vars

\* The server with its event loop running: a setInterval callback that is due runs, and
\* so does a setTimeout callback that is due; nothing obliges a client to send anything
SpecLive ==
    /\ Init /\ [][Next]_vars
    /\ TimersKeepTicking
    /\ WF_vars(\E t \in postGameTimeouts : PostGameTimeout(t))

\* A room as handleDescriptionPhaseComplete leaves it at the start of the first voting
\* phase of a four-player game (everybody spoke; the voting timer has just been started)
VotingRoom(imposterId) ==
    [code |-> 1, hostId |-> 1, phase |-> "voting",
     players |-> [p \in 1..MIN_PLAYERS |-> [id |-> p, name |-> FreshName(p), socketId |-> p]],
     createdAt |-> 1, gameNumber |-> 0, settings |-> DEFAULT_SETTINGS,
     topic |-> 0, word |-> <<0, 0>>, imposterId |-> imposterId,
     descriptions |-> [p \in 1..MIN_PLAYERS |-> "clue"],
     speakingOrder |-> <<2, 3, 4, 1>>, currentSpeakerIndex |-> MIN_PLAYERS,
     votes |-> EmptyMap, pendingVotes |-> EmptyMap, confirmedVotes |-> EmptyMap, chat |-> << >>]

InitVoting ==
    /\ \E imposterId \in 1..2 :
          /\ rooms = (1 :> VotingRoom(imposterId))
          /\ wordSentTo = (1 :> ((1..MIN_PLAYERS) \ {imposterId}))
    /\ roundPlayers = (1 :> 1..MIN_PLAYERS)
    /\ nextId = MIN_PLAYERS + 1
    /\ nextSock = MIN_PLAYERS + 1
    /\ roomTimers = (1 :> [phase |-> "voting", remainingSeconds |-> VotingSeconds])
    /\ postGameTimeouts = {}
    /\ crashed = FALSE

InVoting(c) == c \in DOMAIN rooms /\ rooms[c].phase = "voting"

NextVoting ==
    \/ \E s \in EventSockets, t \in VoteTargets : SubmitVote(s, t)
    \/ \E s \in EventSockets, t \in VoteTargets : SelectVote(s, t)
    \/ \E s \in EventSockets : ConfirmVote(s)
    \/ \E s \in EventSockets : Leave(s)
    \/ \E c \in Codes : InVoting(c) /\ TimerTick(c)
    \/ \E t \in postGameTimeouts : PostGameTimeout(t)

\* One voting phase up to its resolution and what the resolution leaves behind, with
\* both voting paths
SpecVoting == InitVoting /\ [][NextVoting]_vars

\* Connections opened so far, and the next new one: a connection that already holds a
\* player, or has held one, can send room:create and room:join like any other
ConnectedSockets == {s \in Sockets : s <= nextSock}

\* Room codes typed as the server shows them
UpperCodeInputs == {rc \in CodeInputs : ~rc.lower}

NextSockets ==
    \/ \E s \in ConnectedSockets : RoomCreate(s)
    \/ \E s \in ConnectedSockets, rc \in UpperCodeInputs : \E playerName \in JoinNames(ToUpperCase(rc)) :
          RoomJoin(s, rc, playerName)
    \/ \E s \in EventSockets : Leave(s)
    \/ \E s \in EventSockets : GameStart(s)
    \/ \E s \in EventSockets : SubmitDescription(s, Clue)
    \/ \E c \in Codes : TimerTick(c)
    \/ \E t \in postGameTimeouts : PostGameTimeout(t)

\* The registry under room:create, room:join and leave events from any connection,
\* through a game whose players speak and whose votes are left to the timer
SpecSockets == Init /\ [][NextSockets]_vars

(***************************************************************************)
(* What is checked.                                                        *)
(***************************************************************************)
\* Every state a handler can leave behind from the current state, over every event
\* and input a client or a timer can deliver now
Outcomes ==
    UNION {handlePlayerLeave(s) \cup OnGameStart(s) \cup OnPlayAgain(s) \cup
           OnStartDescriptionPhase(s) \cup OnConfirmVote(s) \cup
           UNION {OnSubmitDescription(s, text) : text \in Texts} \cup
           UNION {OnSubmitVote(s, t) \cup OnSelectVote(s, t) : t \in 0..MaxIds} \cup
           UNION {OnRoomJoin(s, rc, nm) : rc \in CodeInputs, nm \in JoinNames(1)}
           : s \in EventSockets}
    \cup UNION {IntervalCallbacks(St0, c, TickBatch) : c \in DOMAIN roomTimers}
    \cup UNION {OnPostGameTimeout(t) : t \in postGameTimeouts}

\* Messages addressed to a whole room
Broadcasts(st) == {m \in st.out : m.to.kind \in {"room", "others"}}

SameRoom(c) == c \in DOMAIN rooms /\ c \in DOMAIN rooms' /\ rooms[c].createdAt = rooms'[c].createdAt

RECURSIVE SumOver(_, _)
SumOver(f, S) == IF S = {} THEN 0 ELSE LET x == CHOOSE y \in S : TRUE IN f[x] + SumOver(f, S \ {x})

PhaseEdges ==
    {<<"lobby", "roleReveal">>, <<"roleReveal", "description">>, <<"description", "voting">>,
     <<"voting", "results">>, <<"voting", "description">>, <<"results", "postGame">>,
     <<"postGame", "lobby">>, <<"results", "lobby">>}

\* C1: every change of a room's phase, in any step of the server, is one of the edges
\* lobby->roleReveal, roleReveal->description, description->voting, voting->results,
\* voting->description, results->postGame, postGame->lobby, results->lobby.
C1_PhaseEdges ==
    [][\A c \in Codes : (SameRoom(c) /\ rooms[c].phase # rooms'[c].phase)
                            => <<rooms[c].phase, rooms'[c].phase>> \in PhaseEdges]_vars

\* A room that went the whole way round: back in the lobby after a game
C1_Witness == \E c \in DOMAIN rooms : rooms[c].phase = "lobby" /\ rooms[c].gameNumber > 0

\* The results of the six operations that guard their phase with INVALID_PHASE, called
\* on `room` by player p with any draws, keyed by operation
PhaseGuarded(room, p) ==
    [transitionToDescriptionPhase |->
        {transitionToDescriptionPhase(room, order) : order \in shuffleArray(PlayerIds(room))},
     transitionToVotingPhase |-> {transitionToVotingPhase(room)},
     calculateVoteResults |-> {calculateVoteResults(room)},
     transitionToPostGame |-> {transitionToPostGame(room)},
     resetRoomForNewGame |-> {resetRoomForNewGame(room, p)},
     restartGameRoundWithSameImposter |->
        {restartGameRoundWithSameImposter(room, tw, order)
         : tw \in TopicWordDraws, order \in shuffleArray(PlayerIds(room))}]

StartGameResults(room, p) ==
    {startGame(room, p, tw, k) : tw \in TopicWordDraws,
                                 k \in RandomBelow(Cardinality(DOMAIN room.players), MaxRand)}

SourcePhases ==
    [startGame |-> {"lobby"},
     transitionToDescriptionPhase |-> {"roleReveal"},
     transitionToVotingPhase |-> {"description"},
     calculateVoteResults |-> {"voting"},
     transitionToPostGame |-> {"results"},
     resetRoomForNewGame |-> {"results", "postGame"},
     restartGameRoundWithSameImposter |-> {"voting"}]

Rejected(r, room, error) == ~r.success /\ ~r.threw /\ r.error = error /\ r.room = room

\* C2 as stated: each of the seven transition operations, called on a room that is not in
\* its source phase, fails with INVALID_PHASE and leaves the room record unchanged.
C2_AllInvalidPhase ==
    \A c \in DOMAIN rooms : \A p \in DOMAIN rooms[c].players :
        /\ \A op \in DOMAIN PhaseGuarded(rooms[c], p) :
              rooms[c].phase \notin SourcePhases[op] =>
                 \A r \in PhaseGuarded(rooms[c], p)[op] : Rejected(r, rooms[c], "INVALID_PHASE")
        /\ rooms[c].phase \notin SourcePhases.startGame =>
              \A r \in StartGameResults(rooms[c], p) : Rejected(r, rooms[c], "INVALID_PHASE")

\* C2 (amended): transitionToDescriptionPhase, transitionToVotingPhase,
\* calculateVoteResults, transitionToPostGame, resetRoomForNewGame and
\* restartGameRoundWithSameImposter, called on a room that is not in their source phase,
\* fail with INVALID_PHASE; startGame called outside lobby fails with NOT_HOST for a
\* caller who is not the host and with GAME_ALREADY_STARTED for the host; in every one of
\* these cases the room record is unchanged.
C2_WrongPhaseRejected ==
    \A c \in DOMAIN rooms : \A p \in DOMAIN rooms[c].players :
        /\ \A op \in DOMAIN PhaseGuarded(rooms[c], p) :
              rooms[c].phase \notin SourcePhases[op] =>
                 \A r \in PhaseGuarded(rooms[c], p)[op] : Rejected(r, rooms[c], "INVALID_PHASE")
        /\ rooms[c].phase \notin SourcePhases.startGame =>
              \A r \in StartGameResults(rooms[c], p) :
                 Rejected(r, rooms[c], IF p = rooms[c].hostId THEN "GAME_ALREADY_STARTED" ELSE "NOT_HOST")

\* A room in voting whose host and another player both get their startGame rejected
C2_Witness ==
    \E c \in DOMAIN rooms :
        /\ rooms[c].phase = "voting"
        /\ \E p \in DOMAIN rooms[c].players : p # rooms[c].hostId
        /\ \A r \in StartGameResults(rooms[c], rooms[c].hostId) : r.error = "GAME_ALREADY_STARTED"
        /\ \A r \in PhaseGuarded(rooms[c], rooms[c].hostId).transitionToPostGame : r.error = "INVALID_PHASE"

\* C3: a 'start description phase' trigger (the host's game:startDescriptionPhase, or a
\* roleReveal timer expiring) handled while the room is not in roleReveal leaves the room
\* record and the room's live timer as they were.
C3_LateTriggerHarmless ==
    /\ \A s \in EventSockets :
          LET c == getPlayerBySocketId(rooms, s).code
          IN  (c # 0 /\ rooms[c].phase # "roleReveal") =>
                 \A st \in OnStartDescriptionPhase(s) : st.rooms = rooms /\ st.timers = roomTimers
    /\ \A c \in DOMAIN roomTimers :
          (roomTimers[c].phase = "roleReveal" /\ c \in DOMAIN rooms /\ rooms[c].phase # "roleReveal") =>
             \A st \in IntervalCallbacks(St0, c, roomTimers[c].remainingSeconds) :
                st.rooms = rooms /\ st.timers = clearTimer(roomTimers, c)

\* C4: whenever a timer is live for a room, the room exists and is in the phase the timer
\* was started for.
C4_NoStaleTimer ==
    \A c \in DOMAIN roomTimers : c \in DOMAIN rooms /\ rooms[c].phase = roomTimers[c].phase

\* The timer of a tie-breaker replay round, half-way through
C4_Witness ==
    \E c \in DOMAIN roomTimers :
        roomTimers[c].phase = "description" /\ roomTimers[c].remainingSeconds < DescriptionSeconds

WordFields == {"word", "secretWord"}

\* C5: in every round in progress (before results), the players who have been sent the
\* round's word are exactly those who were in the room when the round started, minus the
\* imposter; a rejoin answers with the word only for such a player; and no message to
\* the whole room carries the word before the results.
C5_WordRecipients ==
    /\ \A c \in DOMAIN rooms :
          rooms[c].phase \in {"roleReveal", "description", "voting"} =>
             /\ wordSentTo[c] = roundPlayers[c] \ {rooms[c].imposterId}
             /\ \A p \in DOMAIN rooms[c].players :
                   "word" \in DOMAIN getRejoinState(rooms[c], p) =>
                      p \in roundPlayers[c] \ {rooms[c].imposterId}
    /\ \A st \in Outcomes : \A m \in Broadcasts(st) :
          DOMAIN m.payload \cap WordFields # {} => m.event = "game:results"

\* A replay round in which somebody has already left: the word of this round went to the
\* players of this round only
C5_Witness ==
    \E c \in DOMAIN rooms :
        /\ rooms[c].phase \in {"description", "voting"}
        /\ Cardinality(roundPlayers[c]) < MIN_PLAYERS
        /\ wordSentTo[c] # {}
        /\ DOMAIN rooms[c].players # roundPlayers[c]

ImposterFields == {"imposter", "imposterId", "isImposter"}

CarriesImposter(m) ==
    \/ DOMAIN m.payload \cap ImposterFields # {}
    \/ "room" \in DOMAIN m.payload /\ DOMAIN m.payload.room \cap ImposterFields # {}

RoundStarts(c) ==
    /\ SameRoom(c)
    /\ \/ rooms[c].phase = "lobby" /\ rooms'[c].phase = "roleReveal"
       \/ rooms[c].phase = "voting" /\ rooms'[c].phase = "description"

\* C7: whenever a round starts (startGame succeeded, or a tie restarted the round), the
\* room has an imposterId and it is the id of a player in the room.
C7_ImposterPresent ==
    [][\A c \in Codes :
          RoundStarts(c) => /\ Has(rooms'[c], "imposterId")
                            /\ rooms'[c].imposterId \in DOMAIN rooms'[c].players]_vars

\* A replay round started after a player other than the imposter had left
C7_Witness ==
    \E c \in DOMAIN rooms :
        /\ rooms[c].phase = "description"
        /\ Has(rooms[c], "confirmedVotes")
        /\ Cardinality(DOMAIN rooms[c].players) < MIN_PLAYERS

\* C8: calculateVoteResults in voting: when two or more current players share the highest
\* tally it reports a tie, eliminates nobody and leaves the room in voting; when exactly
\* one holds it, it eliminates that player and the room is in results.
C8_TieOrElimination ==
    \A c \in DOMAIN rooms :
        rooms[c].phase = "voting" =>
           LET r == calculateVoteResults(rooms[c])
               top == PlayersWithMaxVotes(VoteCounts(rooms[c]))
           IN  IF Cardinality(top) > 1
               THEN r.isTie /\ ~r.success /\ r.room = rooms[c]
               ELSE /\ ~r.threw /\ r.success /\ ~r.isTie
                    /\ r.results.votedOutPlayer \in top
                    /\ r.room.phase = "results"

\* C9: at a resolution the tallies add up to the number of entries of the confirmed-vote
\* map (stated for the resolution the voting timer starts: auto-confirm, then tally).
C9_TalliesMatchConfirmed ==
    \A c \in DOMAIN rooms :
        rooms[c].phase = "voting" =>
           LET r == autoConfirmPendingVotes(rooms[c]).room
           IN  SumOver(VoteCounts(r), DOMAIN r.players) = Size(r.confirmedVotes)

\* C10: while a room stays in one voting phase, an entry of the confirmed-vote map is
\* never changed or removed, and the vote map the resolution tallies holds the same
\* target for that voter.
C10_ConfirmedIsFinal ==
    /\ [][\A c \in Codes :
            (SameRoom(c) /\ rooms[c].phase = "voting" /\ rooms'[c].phase = "voting") =>
               \A v \in DOMAIN rooms[c].confirmedVotes :
                  /\ v \in DOMAIN rooms'[c].confirmedVotes
                  /\ rooms'[c].confirmedVotes[v] = rooms[c].confirmedVotes[v]]_vars
    /\ [](\A c \in DOMAIN rooms :
            rooms[c].phase = "voting" =>
               \A v \in DOMAIN rooms[c].confirmedVotes :
                  v \in DOMAIN rooms[c].votes /\ rooms[c].votes[v] = rooms[c].confirmedVotes[v])

\* A confirmed voter whose legacy vote named somebody else before, after a player left
C10_Witness ==
    \E c \in DOMAIN rooms :
        /\ rooms[c].phase = "voting"
        /\ Cardinality(DOMAIN rooms[c].players) < MIN_PLAYERS
        /\ \E v \in DOMAIN rooms[c].confirmedVotes : v \notin DOMAIN rooms[c].players
        /\ \E v \in DOMAIN rooms[c].confirmedVotes : rooms[c].confirmedVotes[v] \notin DOMAIN rooms[c].players

VotingRooms == {c \in DOMAIN rooms : rooms[c].phase = "voting"}

\* C11: confirmVote by a player of a voting room succeeds exactly when the voter has a
\* pending selection and no confirmed vote; on success the confirmed entry is the pending
\* selection; without a selection it fails with NO_SELECTION and after a confirmation
\* with ALREADY_CONFIRMED, and a failure leaves the room as it was.
C11_ConfirmNeedsSelection ==
    \A c \in VotingRooms : \A v \in DOMAIN rooms[c].players :
        LET room == rooms[c]
            r == confirmVote(room, v)
        IN  /\ r.success <=> (v \in DOMAIN room.pendingVotes /\ v \notin DOMAIN room.confirmedVotes)
            /\ r.success => r.room.confirmedVotes[v] = room.pendingVotes[v]
            /\ v \notin DOMAIN room.pendingVotes => Rejected(r, room, "NO_SELECTION")
            /\ v \in DOMAIN room.confirmedVotes => Rejected(r, room, "ALREADY_CONFIRMED")

\* A voting room with one voter of each kind: confirmed, selected only, and undecided
C11_Witness ==
    \E c \in VotingRooms :
        LET room == rooms[c]
        IN  /\ \E v \in DOMAIN room.players : v \in DOMAIN room.confirmedVotes
            /\ \E v \in DOMAIN room.players :
                  v \in DOMAIN room.pendingVotes /\ v \notin DOMAIN room.confirmedVotes
            /\ \E v \in DOMAIN room.players : v \notin DOMAIN room.pendingVotes

\* C12: every entry written to the confirmed-vote map, by confirmVote or by the bulk
\* auto-confirm of the voting timeout, names a target who is in the room at that moment
\* and who is not the voter.
C12_ConfirmedTargetsPresent ==
    \A c \in VotingRooms :
        LET room == rooms[c]
            bulk == autoConfirmPendingVotes(room).room
        IN  /\ \A v \in DOMAIN room.players :
                  LET r == confirmVote(room, v)
                  IN  r.success => r.room.confirmedVotes[v] \in DOMAIN room.players \ {v}
            /\ \A v \in DOMAIN bulk.confirmedVotes \ DOMAIN room.confirmedVotes :
                  bulk.confirmedVotes[v] \in DOMAIN room.players \ {v}

\* The select-then-confirm path for one vote
SelectThenConfirm(room, voterId, targetPlayerId) ==
    LET sel == selectVote(room, voterId, targetPlayerId)
    IN  IF sel.success THEN confirmVote(sel.room, voterId) ELSE sel

\* C13: from every reachable voting state, submitVote(voter, target) and selectVote(voter,
\* target) followed by confirmVote(voter) are accepted or rejected alike and leave the
\* same pending, confirmed and tally maps.
C13_LegacyVoteEquivalent ==
    \A c \in VotingRooms : \A v \in DOMAIN rooms[c].players : \A t \in 0..MaxIds :
        LET one == submitVote(rooms[c], v, t)
            two == SelectThenConfirm(rooms[c], v, t)
        IN  /\ one.success = two.success
            /\ one.room.pendingVotes = two.room.pendingVotes
            /\ one.room.confirmedVotes = two.room.confirmedVotes
            /\ one.room.votes = two.room.votes

\* C14: at the resolution of a voting room, the votes of players who have left the room
\* count for nobody: each tally is the number of votes by players still in the room.
C14_LeaverAbstains ==
    \A c \in VotingRooms :
        LET room == autoConfirmPendingVotes(rooms[c]).room
            present == DOMAIN room.players
        IN  \A p \in present :
               VoteCounts(room)[p] =
                  Cardinality({v \in DOMAIN room.votes \cap present : room.votes[v] = p})

\* C15: handlePlayerDisconnectMidGame in voting changes nothing and reports
\* votingComplete exactly when every player other than the departing one has a
\* confirmed vote.
C15_VotingCompleteOnLeave ==
    \A c \in VotingRooms : \A p \in DOMAIN rooms[c].players :
        LET r == handlePlayerDisconnectMidGame(rooms[c], p)
        IN  /\ r.room = rooms[c]
            /\ r.votingComplete <=>
                  \A q \in DOMAIN rooms[c].players \ {p} : q \in DOMAIN rooms[c].confirmedVotes

DescriptionRooms == {c \in DOMAIN rooms : rooms[c].phase = "description"}

EntersDescription(c) ==
    SameRoom(c) /\ rooms[c].phase # "description" /\ rooms'[c].phase = "description"

StaysInDescription(c) ==
    SameRoom(c) /\ rooms[c].phase = "description" /\ rooms'[c].phase = "description"

IsPermutation(order, S) ==
    /\ Len(order) = Cardinality(S)
    /\ Range(order) = S

\* C16: at every entry into the description phase, from roleReveal or from a tie replay,
\* the speaking order lists every player then in the room exactly once, and nobody else.
C16_OrderIsPermutation ==
    [][\A c \in Codes :
          EntersDescription(c) =>
             IsPermutation(rooms'[c].speakingOrder, DOMAIN rooms'[c].players)]_vars

\* A replay round entered with fewer players than the game started with, in an order that
\* is not the players' join order
C16_Witness ==
    \E c \in DescriptionRooms :
        /\ Has(rooms[c], "confirmedVotes")
        /\ Len(rooms[c].speakingOrder) < MIN_PLAYERS
        /\ rooms[c].speakingOrder # SortedSeq(Range(rooms[c].speakingOrder))
        /\ rooms[c].currentSpeakerIndex = 0

\* The description-phase operations that move the index, applied to one room
IndexMovers(room) ==
    {autoSubmitCurrentSpeaker(room), getCurrentSpeaker(room)} \cup
    {submitDescription(room, p, text) : p \in DOMAIN room.players, text \in Texts} \cup
    {[room |-> handlePlayerDisconnectMidGame(room, p).room] : p \in DOMAIN room.players}

\* C17: the current-speaker index is 0 when a room enters description, never decreases
\* while the room stays in that description phase, and never exceeds the length of the
\* speaking order, whichever of submitDescription, autoSubmitCurrentSpeaker,
\* getCurrentSpeaker or the disconnect handling is applied.
C17_IndexMonotone ==
    /\ [][\A c \in Codes :
            /\ EntersDescription(c) => rooms'[c].currentSpeakerIndex = 0
            /\ StaysInDescription(c) =>
                  rooms[c].currentSpeakerIndex <= rooms'[c].currentSpeakerIndex]_vars
    /\ [](\A c \in DescriptionRooms :
            /\ rooms[c].currentSpeakerIndex <= Len(rooms[c].speakingOrder)
            /\ \A r \in IndexMovers(rooms[c]) :
                  /\ rooms[c].currentSpeakerIndex <= r.room.currentSpeakerIndex
                  /\ r.room.currentSpeakerIndex <= Len(r.room.speakingOrder))

\* A description phase in which everybody on the order has had a turn: the index is at
\* the end, past a speaker who left
C17_Witness ==
    \E c \in DescriptionRooms :
        /\ rooms[c].currentSpeakerIndex = Len(rooms[c].speakingOrder)
        /\ Range(rooms[c].speakingOrder) # DOMAIN rooms[c].players

\* C18: submitDescription by a player of the room succeeds only when the room is in
\* description, the player is the one at the current-speaker index and has no entry yet;
\* in description a call by any other player fails with NOT_YOUR_TURN and leaves the
\* room (descriptions map and index) unchanged.
C18_OnlyCurrentSpeaker ==
    \A c \in DOMAIN rooms : \A p \in DOMAIN rooms[c].players : \A text \in Texts :
        LET room == rooms[c]
            r == submitDescription(room, p, text)
        IN  /\ r.success =>
                 /\ room.phase = "description"
                 /\ p = At(room.speakingOrder, room.currentSpeakerIndex)
                 /\ p \notin DOMAIN room.descriptions
            /\ (room.phase = "description" /\ p # At(room.speakingOrder, room.currentSpeakerIndex))
                  => Rejected(r, room, "NOT_YOUR_TURN")

\* Mid-round: somebody has spoken, the current speaker is in the room and so is a player
\* whose turn it is not
C18_Witness ==
    \E c \in DescriptionRooms :
        LET room == rooms[c]
            cur == At(room.speakingOrder, room.currentSpeakerIndex)
        IN  /\ room.currentSpeakerIndex > 0
            /\ cur \in DOMAIN room.players
            /\ submitDescription(room, cur, Clue).success
            /\ \E p \in DOMAIN room.players \ {cur} : p \notin DOMAIN room.descriptions

\* C19: a successful submitDescription reports allSubmitted exactly when the index, after
\* its advance by one, has reached the end of the speaking order.
C19_AllSubmittedAtEnd ==
    \A c \in DescriptionRooms : \A p \in DOMAIN rooms[c].players : \A text \in Texts :
        LET r == submitDescription(rooms[c], p, text)
        IN  r.success =>
               (r.allSubmitted <=> r.room.currentSpeakerIndex >= Len(r.room.speakingOrder))

KeepsEntries(old, new) ==
    \A p \in DOMAIN old.descriptions :
        p \in DOMAIN new.descriptions /\ new.descriptions[p] = old.descriptions[p]

\* The operations that write descriptions during a round, applied to one room
DescriptionWriters(room) ==
    IndexMovers(room) \cup {autoSubmitMissingDescriptions(room)}

\* C20: once a player has an entry in the descriptions map, no step of the server and no
\* description operation changes or removes it, until the map is re-initialised by the
\* next entry into description or removed by the reset for a new game.
C20_DescriptionsAppendOnly ==
    /\ [][\A c \in Codes :
            (/\ SameRoom(c) /\ ~EntersDescription(c)
             /\ Has(rooms[c], "descriptions") /\ Has(rooms'[c], "descriptions"))
               => KeepsEntries(rooms[c], rooms'[c])]_vars
    /\ [](\A c \in DescriptionRooms :
            \A r \in DescriptionWriters(rooms[c]) : KeepsEntries(rooms[c], r.room))

\* A round in which a player spoke and then left, so that the disconnect handling met an
\* existing entry
C20_Witness ==
    \E c \in DescriptionRooms :
        \E p \in DOMAIN rooms[c].descriptions :
            /\ p \notin DOMAIN rooms[c].players
            /\ rooms[c].descriptions[p] = "clue"

\* The 0-based positions of the speaking order, from `index` on, whose player is in the room
PresentFrom(room, index) ==
    {i \in index..(Len(room.speakingOrder) - 1) : At(room.speakingOrder, i) \in DOMAIN room.players}

\* The current speaker of room c leaves in this step without having submitted
SpeakerLeaves(c, p) ==
    /\ SameRoom(c)
    /\ rooms[c].phase = "description"
    /\ p = At(rooms[c].speakingOrder, rooms[c].currentSpeakerIndex)
    /\ p \in DOMAIN rooms[c].players
    /\ p \notin DOMAIN rooms[c].descriptions
    /\ p \notin DOMAIN rooms'[c].players

\* C21: when the current speaker leaves during description before submitting, the
\* player's entry in the descriptions map is afterwards '(Disconnected)', and while the
\* room is still in description getCurrentSpeaker returns the next player of the speaking
\* order who is still in the room, or all-complete when there is none.
C21_SpeakerLeft ==
    [][\A c \in Codes : \A p \in Ids :
          SpeakerLeaves(c, p) =>
             /\ p \in DOMAIN rooms'[c].descriptions
             /\ rooms'[c].descriptions[p] = Disconnected
             /\ rooms'[c].phase = "description" =>
                   LET room == rooms'[c]
                       r == getCurrentSpeaker(room)
                       rest == PresentFrom(room, room.currentSpeakerIndex)
                   IN  /\ r.success
                       /\ r.allComplete <=> rest = {}
                       /\ rest # {} => r.currentSpeaker = At(room.speakingOrder, Min(rest))]_vars

\* The speaker at the index has left with a placeholder, and a later speaker is still there
C21_Witness ==
    \E c \in DescriptionRooms :
        LET room == rooms[c]
            p == At(room.speakingOrder, room.currentSpeakerIndex)
        IN  /\ p # 0 /\ p \notin DOMAIN room.players
            /\ p \in DOMAIN room.descriptions /\ room.descriptions[p] = Disconnected
            /\ PresentFrom(room, room.currentSpeakerIndex) # {}
            /\ ~getCurrentSpeaker(room).allComplete

\* C22: autoSubmitCurrentSpeaker, called in description with the index inside the order,
\* returns a result whose next speaker is a player in the room (or reports completion),
\* with a description for every departed entry it passed, having advanced by no more
\* than the order's length.
C22_TurnTimeoutSkipsDeparted ==
    \A c \in DescriptionRooms :
        LET room == rooms[c]
            r == autoSubmitCurrentSpeaker(room)
        IN  room.currentSpeakerIndex < Len(room.speakingOrder) =>
               /\ ~r.threw /\ r.success
               /\ r.allSubmitted \/ r.nextSpeaker \in DOMAIN room.players
               /\ \A i \in room.currentSpeakerIndex..(r.room.currentSpeakerIndex - 1) :
                     At(room.speakingOrder, i) \in DOMAIN r.room.descriptions
               /\ r.room.currentSpeakerIndex - room.currentSpeakerIndex <= Len(room.speakingOrder)

\* The results of the room operations on one room, over every caller and input
OperationResults(room) ==
    LET P == DOMAIN room.players
    IN  UNION {PhaseGuarded(room, p)[op] : p \in P, op \in DOMAIN SourcePhases \ {"startGame"}}
        \cup UNION {StartGameResults(room, p) : p \in P}
        \cup {updateRoomSettings(room, p, n) : p \in P, n \in SettingInputs}
        \cup {submitDescription(room, p, text) : p \in P, text \in Texts}
        \cup {selectVote(room, p, t) : p \in P, t \in 0..MaxIds}
        \cup {submitVote(room, p, t) : p \in P, t \in 0..MaxIds}
        \cup {confirmVote(room, p) : p \in P}
        \cup {autoConfirmPendingVotes(room), autoSubmitMissingDescriptions(room),
              autoSubmitCurrentSpeaker(room), getCurrentSpeaker(room)}

\* C25: no room operation raises, in any reachable state: each returns a result, also
\* calculateVoteResults and restartGameRoundWithSameImposter after the imposter has left
\* and autoSubmitCurrentSpeaker when the next speaker has left.
C25_NoOperationRaises ==
    \A c \in DOMAIN rooms : \A r \in OperationResults(rooms[c]) : ~r.threw

\* C26: a room operation that returns a failure leaves the room record exactly as it
\* was before the call.
C26_FailureChangesNothing ==
    \A c \in DOMAIN rooms :
        /\ \A r \in OperationResults(rooms[c]) : (~r.success /\ ~r.threw) => r.room = rooms[c]
        /\ \A nm \in JoinNames(c) :
              LET j == joinRoom(rooms[c], nm, nextSock)
              IN  j.error # "" => j.room = rooms[c]

\* The tags the server hands to timerManager.startTimer for a room in each phase
TimerTags(room) ==
    CASE room.phase = "roleReveal" -> {"roleReveal"}
      [] room.phase = "description" -> {"descriptionTurn", "description"}
      [] room.phase = "voting" -> {"voting"}
      [] OTHER -> {}

\* C27: after startTimer returns for a room, whatever timer the room had before, the
\* room has exactly one live timer, the one just started, with its full duration as
\* remaining seconds, and one onTick carrying that value has been delivered.
C27_StartTimerStartsOne ==
    \A c \in DOMAIN rooms : \A tag \in TimerTags(rooms[c]) :
        LET st == startPhaseTimer(St0, c, tag)
        IN  /\ c \in DOMAIN st.timers
            /\ st.timers[c].phase = tag
            /\ st.timers[c].remainingSeconds >= 1
            /\ st.out = {Msg(ToRoom(c), "game:timer",
                             [phase |-> tag, remainingSeconds |-> st.timers[c].remainingSeconds])}

TimerMessage(c, phase, remainingSeconds) ==
    Msg(ToRoom(c), "game:timer", [phase |-> phase, remainingSeconds |-> remainingSeconds])

\* C28: a started timer expires at most once, and exactly once when it is neither cleared
\* nor replaced: a live timer has not reached zero yet; its callbacks up to the one
\* before zero only tick; the callback that reaches zero ticks with 0, removes the timer
\* and runs onExpire once, which leaves the room without a timer or with a newly started
\* one.  After clearTimer the room has no timer whose callback could run, and a second
\* clearTimer changes nothing.
C28_ExpiresOnce ==
    /\ \A c \in Codes :
          /\ c \notin DOMAIN clearTimer(roomTimers, c)
          /\ clearTimer(clearTimer(roomTimers, c), c) = clearTimer(roomTimers, c)
    /\ \A c \in DOMAIN roomTimers :
          LET timer == roomTimers[c]
          IN  /\ timer.remainingSeconds >= 1
              /\ IntervalCallbacks(St0, c, timer.remainingSeconds - 1) =
                    {[St0 EXCEPT !.timers[c].remainingSeconds = 1,
                                 !.out = {TimerMessage(c, timer.phase, k) :
                                             k \in 1..(timer.remainingSeconds - 1)}]}
              /\ \A st \in IntervalCallbacks(St0, c, timer.remainingSeconds) :
                    /\ TimerMessage(c, timer.phase, 0) \in st.out
                    /\ \/ c \notin DOMAIN st.timers
                       \/ /\ st.timers[c].phase # timer.phase
                          /\ st.timers[c].remainingSeconds = PHASE_DURATIONS[st.timers[c].phase]
                          /\ TimerMessage(c, st.timers[c].phase, st.timers[c].remainingSeconds) \in st.out

\* A live timer whose expiry moves the room on and leaves it without a timer
C28_Witness ==
    \E c \in DOMAIN roomTimers :
        \E st \in IntervalCallbacks(St0, c, roomTimers[c].remainingSeconds) :
            /\ ~st.crashed
            /\ c \in DOMAIN st.rooms /\ st.rooms[c].phase # rooms[c].phase
            /\ c \notin DOMAIN st.timers

RoundScopedFields ==
    {"topic", "word", "imposterId", "descriptions", "speakingOrder", "currentSpeakerIndex",
     "votes", "pendingVotes", "confirmedVotes", "chat"}

\* C29: restartGameRoundWithSameImposter succeeds only on a room in voting, and on
\* success the imposter, the players, the host, the settings and the round counter are
\* as before, the descriptions, the pending and the confirmed votes, the tally map and
\* the chat are empty, the speaker index is 0 and the phase is description.
C29_RestartKeepsImposter ==
    \A c \in DOMAIN rooms : \A room \in ChatStates(rooms[c]) :
        \A p \in DOMAIN room.players :
            \A r \in PhaseGuarded(room, p).restartGameRoundWithSameImposter :
                r.success =>
                   /\ room.phase = "voting"
                   /\ r.room.imposterId = room.imposterId
                   /\ r.room.players = room.players
                   /\ r.room.hostId = room.hostId
                   /\ r.room.settings = room.settings
                   /\ r.room.gameNumber = room.gameNumber
                   /\ r.room.descriptions = EmptyMap
                   /\ r.room.pendingVotes = EmptyMap
                   /\ r.room.confirmedVotes = EmptyMap
                   /\ r.room.votes = EmptyMap
                   /\ r.room.chat = << >>
                   /\ r.room.currentSpeakerIndex = 0
                   /\ r.room.phase = "description"

\* A voting room with a tally, confirmed votes and a chat message on which the restart
\* succeeds
C29_Witness ==
    \E c \in VotingRooms : \E room \in ChatStates(rooms[c]) :
        /\ room.chat # << >> /\ room.votes # EmptyMap /\ room.confirmedVotes # EmptyMap
        /\ room.descriptions # EmptyMap
        /\ \E p \in DOMAIN room.players :
              \E r \in PhaseGuarded(room, p).restartGameRoundWithSameImposter : r.success

\* C30: a successful resetRoomForNewGame leaves the room in lobby with none of the
\* round-scoped fields (topic, word, imposter, descriptions, speaking order, speaker
\* index, vote maps, chat) present, the round counter one higher, and the players, the
\* host and the settings as before.
C30_ResetClearsRound ==
    \A c \in DOMAIN rooms : \A room \in ChatStates(rooms[c]) :
        \A p \in DOMAIN room.players :
            LET r == resetRoomForNewGame(room, p)
            IN  r.success =>
                   /\ r.room.phase = "lobby"
                   /\ DOMAIN r.room \cap RoundScopedFields = {}
                   /\ r.room.gameNumber = room.gameNumber + 1
                   /\ r.room.players = room.players
                   /\ r.room.hostId = room.hostId
                   /\ r.room.settings = room.settings

\* A finished game with every round-scoped field and a chat message, reset by its host
C30_Witness ==
    \E c \in DOMAIN rooms : \E room \in ChatStates(rooms[c]) :
        /\ room.phase \in {"results", "postGame"}
        /\ RoundScopedFields \subseteq DOMAIN room
        /\ room.chat # << >>
        /\ resetRoomForNewGame(room, room.hostId).success

InPhase(c, phases) == c \in DOMAIN rooms /\ rooms[c].phase \in phases

\* C23: with timers ticking and due callbacks run, whatever the players and the host do
\* or leave undone, a room that is in description is eventually in voting or deleted
\* (as long as the server process is alive).
C23_DescriptionEnds ==
    \A c \in Codes :
        InPhase(c, {"description"}) ~> (c \notin DOMAIN rooms \/ InPhase(c, {"voting"}) \/ crashed)

\* C24: with timers ticking and due callbacks run, whatever the players and the host do
\* or leave undone, a room that is in voting is eventually in results, in a tie-breaker
\* description round, or deleted (as long as the server process is alive).
C24_VotingEnds ==
    \A c \in Codes :
        InPhase(c, {"voting"}) ~>
            (c \notin DOMAIN rooms \/ InPhase(c, {"results", "description"}) \/ crashed)

\* What C31 asks of the result r of startGame or resetRoomForNewGame called on `room`
\* by player p
HostAndMinimum(room, p, r) ==
    LET count == Cardinality(DOMAIN room.players)
    IN  /\ r.success => p = room.hostId /\ count >= 4
        /\ p # room.hostId => r.error = "NOT_HOST" /\ r.room = room
        /\ (p = room.hostId /\ count < 4) =>
              /\ r.error = "NOT_ENOUGH_PLAYERS" /\ r.room = room
              /\ r.required = 4 /\ r.current = count

\* C31 as stated: startGame and resetRoomForNewGame succeed only for the host of a room
\* with at least 4 players; a caller who is not the host gets NOT_HOST, a host with fewer
\* than 4 players gets NOT_ENOUGH_PLAYERS with required = 4 and the current count, and in
\* both cases the room is unchanged -- in whatever phase the room is.
C31_HostAndMinimum ==
    \A c \in DOMAIN rooms : \A p \in DOMAIN rooms[c].players :
        \A r \in StartGameResults(rooms[c], p) \cup {resetRoomForNewGame(rooms[c], p)} :
            HostAndMinimum(rooms[c], p, r)

\* C31 amended: the same, for startGame on a room in lobby and resetRoomForNewGame on a
\* room in results or postGame; in the other phases both fail whoever calls, and the
\* room is unchanged.
C31_HostAndMinimumInPhase ==
    \A c \in DOMAIN rooms : \A p \in DOMAIN rooms[c].players :
        LET room == rooms[c]
        IN  /\ \A r \in StartGameResults(room, p) :
                  IF room.phase = "lobby" THEN HostAndMinimum(room, p, r)
                  ELSE ~r.success /\ r.room = room
            /\ LET r == resetRoomForNewGame(room, p)
               IN  IF room.phase \in {"results", "postGame"} THEN HostAndMinimum(room, p, r)
                   ELSE ~r.success /\ r.room = room

\* A finished game that a player has left: the host's reset is refused for want of
\* players, another player's for not being the host
C31_Witness ==
    \E c \in DOMAIN rooms :
        LET room == rooms[c]
        IN  /\ room.phase \in {"results", "postGame"}
            /\ Cardinality(DOMAIN room.players) = 3
            /\ resetRoomForNewGame(room, room.hostId).error = "NOT_ENOUGH_PLAYERS"
            /\ \E p \in DOMAIN room.players : resetRoomForNewGame(room, p).error = "NOT_HOST"

\* C32: after every step each room in the registry has at least one player (the step
\* that removes a room's last player removes the room), and a step removes a room from
\* the registry only when the one player it had is the one the step removes.
C32_NoEmptyRoom ==
    [][\A c \in Codes :
          /\ c \in DOMAIN rooms' => DOMAIN rooms'[c].players # {}
          /\ (c \in DOMAIN rooms /\ c \notin DOMAIN rooms') =>
                Cardinality(DOMAIN rooms[c].players) = 1]_vars

\* A room has existed and has been deleted with its last player
C32_Witness == rooms = << >> /\ nextId > 1 /\ ~crashed

\* C33: after every step each room's hostId is the id of one of its players; when a
\* step removes the host and players remain, the host is the earliest remaining player
\* (ids are handed out in the order of insertion), and a step that leaves the host in
\* the room leaves the host as it was.
C33_HostIsPlayer ==
    [][\A c \in Codes :
          /\ c \in DOMAIN rooms' => rooms'[c].hostId \in DOMAIN rooms'[c].players
          /\ SameRoom(c) =>
                IF rooms[c].hostId \in DOMAIN rooms'[c].players
                THEN rooms'[c].hostId = rooms[c].hostId
                ELSE rooms'[c].hostId = Min(DOMAIN rooms'[c].players)]_vars

\* A room whose creator has left and whose host is the earliest of several remaining
\* players
C33_Witness ==
    \E c \in DOMAIN rooms :
        /\ rooms[c].createdAt \notin DOMAIN rooms[c].players
        /\ Cardinality(DOMAIN rooms[c].players) >= 2
        /\ rooms[c].hostId = Min(DOMAIN rooms[c].players)

GamePhases == {"roleReveal", "description", "voting", "results"}

\* C34: on a room in roleReveal, description, voting or results joinRoom fails with
\* GAME_IN_PROGRESS and adds nobody, whatever the name and the connection, and no step
\* of the server taken in one of those phases adds a player to the room.
C34_NoJoinMidGame ==
    [][\A c \in DOMAIN rooms :
          rooms[c].phase \in GamePhases =>
             /\ \A playerName \in JoinNames(c), s \in ConnectedSockets :
                   joinRoom(rooms[c], playerName, s) =
                      [room |-> rooms[c], error |-> "GAME_IN_PROGRESS", id |-> 0]
             /\ SameRoom(c) => DOMAIN rooms'[c].players \subseteq DOMAIN rooms[c].players]_vars

\* A game in progress that a player has left, where a room:join under a new name is
\* answered with GAME_IN_PROGRESS
C34_Witness ==
    \E c \in DOMAIN rooms :
        /\ rooms[c].phase \in GamePhases /\ ~crashed
        /\ Cardinality(DOMAIN rooms[c].players) < MIN_PLAYERS
        /\ \E s \in ConnectedSockets, rc \in CodeInputs :
              /\ ToUpperCase(rc) = c
              /\ \A st \in OnRoomJoin(s, rc, FreshName(nextId)) :
                    /\ st.res.error = "GAME_IN_PROGRESS"
                    /\ st.rooms = rooms

\* The spellings under which a room:join names player p of the room
NamesOf(room, p) == {room.players[p].name, OtherCase(room.players[p].name)}

\* C35: in any phase, attemptRejoin with the name of a player of the room, in either
\* capitalisation and from any connection, returns that player's id and changes nothing
\* but that player's connection reference; repeated, it returns the same id again and
\* the player set is still the same.
C35_RejoinIdempotent ==
    \A c \in DOMAIN rooms : \A p \in DOMAIN rooms[c].players :
        \A playerName \in NamesOf(rooms[c], p), s1 \in Sockets, s2 \in Sockets :
            LET room == rooms[c]
                r1 == attemptRejoin(room, playerName, s1)
                r2 == attemptRejoin(r1.room, playerName, s2)
            IN  /\ r1.success /\ r1.id = p
                /\ r1.room = [room EXCEPT !.players[p].socketId = s1]
                /\ r2.success /\ r2.id = p
                /\ r2.room = [room EXCEPT !.players[p].socketId = s2]

\* A game in progress in which a room:join from another connection, with a player's
\* name in the other capitalisation, is answered as a rejoin of that player
C35_Witness ==
    \E c \in DOMAIN rooms : \E p \in DOMAIN rooms[c].players :
        /\ rooms[c].phase \in GamePhases /\ ~crashed
        /\ \E s \in ConnectedSockets \ {rooms[c].players[p].socketId}, rc \in UpperCodeInputs :
              /\ ToUpperCase(rc) = c
              /\ \A st \in OnRoomJoin(s, rc, OtherCase(rooms[c].players[p].name)) :
                    /\ st.res.success /\ st.res.id = p
                    /\ DOMAIN st.rooms[c].players = DOMAIN rooms[c].players
                    /\ st.rooms[c].players[p].socketId = s

\* C36: when a resolution moves a room to results, the state reconstructed for a player
\* who rejoins in results carries the imposter, the secret word and the vote summary
\* (same entries, same counts, same order) that the resolution returned.
C36_RejoinSeesSameResults ==
    \A c \in VotingRooms :
        LET r == calculateVoteResults(rooms[c])
        IN  (r.success /\ r.room.phase = "results") =>
               \A p \in DOMAIN r.room.players :
                  LET results == getRejoinState(r.room, p).results
                  IN  /\ results.imposter = r.results.imposter
                      /\ results.secretWord = r.results.secretWord
                      /\ results.voteSummary = r.results.voteSummary

\* C37: when a step moves a room from description to voting, every player in the room
\* after the step has an entry in the descriptions map.
C37_AllPresentDescribed ==
    [][\A c \in Codes :
          (SameRoom(c) /\ rooms[c].phase = "description" /\ rooms'[c].phase = "voting") =>
             DOMAIN rooms'[c].players \subseteq DOMAIN rooms'[c].descriptions]_vars

\* C38: in a description phase, a step of the server writes the no-response placeholder
\* for no player of the room other than the one at the current-speaker index.
C38_OnlySpeakerAutoFilled ==
    [][\A c \in Codes :
          (SameRoom(c) /\ rooms[c].phase = "description" /\ Has(rooms'[c], "descriptions")) =>
             \A p \in DOMAIN rooms'[c].players :
                (/\ p \notin DOMAIN rooms[c].descriptions
                 /\ p \in DOMAIN rooms'[c].descriptions
                 /\ rooms'[c].descriptions[p] = NoResponse) =>
                    p = At(rooms[c].speakingOrder, rooms[c].currentSpeakerIndex)]_vars

\* The players a connection is bound to, as (room, player) pairs
PlayersOn(reg, s) ==
    {<<c, p>> \in UNION {{<<d, q>> : q \in DOMAIN reg[d].players} : d \in DOMAIN reg} :
        reg[c].players[p].socketId = s}

\* C40: in every reachable state each connection is bound to at most one player over
\* all rooms, whatever room:create, room:join and leave events the connections send.
C40_OnePlayerPerSocket ==
    \A s \in Sockets : Cardinality(PlayersOn(rooms, s)) <= 1

\* The rejoins a room:join can make now: the outcome, with the connection it came from
\* and the one it took the player from
Rejoins ==
    UNION {{[st |-> st, c |-> ToUpperCase(rc), p |-> st.res.id, c1 |-> st.res.oldSocketId, c2 |-> s]
              : st \in {x \in OnRoomJoin(s, rc, playerName) :
                           "oldSocketId" \in DOMAIN x.res /\ x.res.success}}
           : s \in ConnectedSockets, rc \in UpperCodeInputs,
             playerName \in JoinNames(1) \ {FreshName(nextId)}}

\* C39: once a rejoin has rebound player P from connection c1 to another connection c2,
\* c1 holds no player, so that a leave or disconnect from c1 removes nobody and leaves
\* every room as it is, in any phase; P is in the room with the id and the round state
\* it had.
C39_StaleLeaveHarmless ==
    \A j \in Rejoins :
        j.c1 # j.c2 =>
           /\ getPlayerBySocketId(j.st.rooms, j.c1).code = 0
           /\ removePlayerBySocketId(j.st.rooms, j.c1).rooms = j.st.rooms
           /\ j.st.rooms[j.c] = [rooms[j.c] EXCEPT !.players[j.p].socketId = j.c2]

====
